---- MODULE Spec2Model ----
(***************************************************************************)
(* Model of the audio segmentation and chunked-transcription pipeline of   *)
(* LingoPlayer-AI (src/services/geminiService.ts, lines 966-2195).         *)
(*                                                                         *)
(* Numbers.  Sample positions are integers.  A time in seconds is held as  *)
(* an integer number of ticks of 0.2 ms (5000 ticks per second), a raw     *)
(* backend timestamp as an integer number of fifths of its unknown unit,   *)
(* a configuration value in seconds as milliseconds.  Quotients are        *)
(* compared by cross-multiplication, so the arithmetic is exact (IEEE      *)
(* rounding of the source's doubles is not modelled).                      *)
(*                                                                         *)
(* Scope.  SpecSeg runs one chunk generator (getVADChunks without the      *)
(* band-pass filter, or getFixedChunks) on one waveform.  Spec runs calls  *)
(* of generateSubtitles and cancelSubtitleGeneration against one backend   *)
(* per run (cloud, local server or in-process Worker), without test mode;  *)
(* every action is the code between two awaits, which JavaScript runs to   *)
(* completion.  The Worker's 'progress' and 'ready' messages are left out. *)
(***************************************************************************)
EXTENDS Integers, Sequences, FiniteSets, TLC

\* ---------------------------------------------------------------------------
\* Bounds of the model
\* ---------------------------------------------------------------------------
\* longest waveform of the VAD segmenter runs, in cells of VadCell samples
MaxVadLen == 11
\* longest waveform of the fixed-schedule segmenter runs, in seconds
MaxFixedLen == 560

\* ---------------------------------------------------------------------------
\* Generic helpers
\* ---------------------------------------------------------------------------
Min(a, b) == IF a <= b THEN a ELSE b

Max(a, b) == IF a >= b THEN a ELSE b

Abs(a) == IF a < 0 THEN 0 - a ELSE a

Last(s) == s[Len(s)]

\* "no limitSec argument" (limitSec === undefined)
NoLimit == 0 - 1

\* ---------------------------------------------------------------------------
\* Waveforms.  A Float32Array is held as [q, e, off]: e[k] is the squared
\* amplitude of each of the q consecutive samples of cell k, and the array is
\* the samples of these cells without the first off ones (0 <= off < q), so it
\* has q * Len(e) - off samples.  The segmenter's slices end on a cell border
\* (the batch size is a multiple of q) and start at any sample.
\* ---------------------------------------------------------------------------
SAMPLE_RATE == 16000

AudioLen(a) == a.q * Len(a.e) - a.off

EmptyAudio(q) == [q |-> q, e |-> <<>>, off |-> 0]

\* a.slice(from, to), a.off + to on a cell border
Slice(a, from, to) ==
    [q |-> a.q,
     e |-> SubSeq(a.e, ((a.off + from) \div a.q) + 1, (a.off + to) \div a.q),
     off |-> (a.off + from) % a.q]

\* combined.set(a); combined.set(b, a.length), b starting on a cell border
Concat(a, b) == [q |-> a.q, e |-> a.e \o b.e, off |-> a.off]

RECURSIVE RangeEnergy(_, _, _)
\* sum of buffer[i] * buffer[i] over the samples from <= i < to
RangeEnergy(a, from, to) ==
    IF from >= to THEN 0
    ELSE LET k == (a.off + from) \div a.q
             upto == Min(to, (k + 1) * a.q - a.off)
         IN a.e[k + 1] * (upto - from) + RangeEnergy(a, upto, to)

\* seconds given in milliseconds, times the sample rate
SamplesOfMs(ms) == (ms * SAMPLE_RATE) \div 1000

\* ---------------------------------------------------------------------------
\* Segmenter: scanForSplitPoints
\*   audio : waveform, minMs : minSilenceSec in milliseconds,
\*   thr   : <<n, d>>, the squared threshold n/d
\* ---------------------------------------------------------------------------
WindowSize == SAMPLE_RATE \div 20

\* calculateRMS(window) < threshold  <=>  sum/len < threshold^2
WindowIsSilent(audio, i, end, thr) ==
    RangeEnergy(audio, i, end) * thr[2] < thr[1] * (end - i)

\* currentSilenceSamples >= minSilenceSec * sampleRate
SilenceLongEnough(cur, minMs) == cur >= SamplesOfMs(minMs)

\* one iteration of the for loop, at window start i, on
\* acc = [cur |-> currentSilenceSamples, start |-> silenceStartIndex, pts |-> splitPoints]
ScanWindow(audio, minMs, thr, i, acc) ==
    LET end == Min(i + WindowSize, AudioLen(audio)) IN
    IF WindowIsSilent(audio, i, end, thr)
    THEN [cur |-> acc.cur + (end - i),
          start |-> IF acc.cur = 0 THEN i ELSE acc.start,
          pts |-> acc.pts]
    ELSE [cur |-> 0, start |-> -1,
          pts |-> IF SilenceLongEnough(acc.cur, minMs)
                  THEN Append(acc.pts, acc.start + (acc.cur \div 2))
                  ELSE acc.pts]

RECURSIVE ScanLoop(_, _, _, _, _, _)
RECURSIVE ScanRest(_, _, _, _, _, _)
\* the iterations of the for loop for the windows lo .. hi - 1, in order: the
\* first half of them, then the rest (halving keeps the evaluation shallow on
\* long buffers)
ScanLoop(audio, minMs, thr, lo, hi, acc) ==
    IF hi <= lo THEN acc
    ELSE IF hi = lo + 1 THEN ScanWindow(audio, minMs, thr, lo * WindowSize, acc)
    ELSE ScanRest(audio, minMs, thr, (lo + hi) \div 2, hi,
                  ScanLoop(audio, minMs, thr, lo, (lo + hi) \div 2, acc))

\* the windows lo .. hi - 1, the windows before them being done
ScanRest(audio, minMs, thr, lo, hi, acc) ==
    CASE acc.cur >= 0 -> ScanLoop(audio, minMs, thr, lo, hi, acc)

\* "Handle trailing silence if valid"
ScanTail(acc, minMs) ==
    IF SilenceLongEnough(acc.cur, minMs)
    THEN Append(acc.pts, acc.start + (acc.cur \div 2))
    ELSE acc.pts

scanForSplitPoints(audio, minMs, thr) ==
    ScanTail(ScanLoop(audio, minMs, thr, 0, (AudioLen(audio) + WindowSize - 1) \div WindowSize,
                      [cur |-> 0, start |-> -1, pts |-> <<>>]),
             minMs)

\* ---------------------------------------------------------------------------
\* Segmenter: getVADChunks, one iteration of the while loop per VADStep.
\* Generator state g: filePointer, globalIndex, buffer, bufferGlobalStart,
\* done, out = the chunks yielded by the last iteration, and skipped = the
\* candidates dropped as micro-chunks so far (observation only).
\* (filteringEnabled = false: the analysis buffer is the buffer itself.)
\* ---------------------------------------------------------------------------
ChunkDef(i, s, e) == [index |-> i, start |-> s, end |-> e]

\* dur > 0.2 with dur = (endLocal - startLocal) / sampleRate
LongerThanMicro(startLocal, endLocal) == (endLocal - startLocal) * 5 > SAMPLE_RATE

RECURSIVE YieldSplitsSameIndex(_, _, _, _)
\* STEP 4 with "index: globalIndex" in place of "index: globalIndex++"
YieldSplitsSameIndex(pts, k, st, bgs) ==
    IF k > Len(pts) THEN st
    ELSE LET startLocal == st.last
             endLocal == pts[k]
         IN YieldSplitsSameIndex(pts, k + 1,
              IF LongerThanMicro(startLocal, endLocal)
              THEN [last |-> endLocal, idx |-> st.idx,
                    out |-> Append(st.out, ChunkDef(st.idx, bgs + startLocal, bgs + endLocal)),
                    skip |-> st.skip]
              ELSE [last |-> endLocal, idx |-> st.idx, out |-> st.out,
                    skip |-> Append(st.skip,
                                    ChunkDef(st.idx, bgs + startLocal, bgs + endLocal))],
              bgs)

RECURSIVE YieldSplits(_, _, _, _)
\* STEP 4: st = [last |-> lastSplitLocal, idx |-> globalIndex, out |-> yields,
\* skip |-> the candidates that took the "Skipping micro-chunk" branch, each
\* with the index the next yield will carry]
YieldSplits(pts, k, st, bgs) ==
    IF k > Len(pts) THEN st
    ELSE LET startLocal == st.last
             endLocal == pts[k]
         IN YieldSplits(pts, k + 1,
              IF LongerThanMicro(startLocal, endLocal)
              THEN [last |-> endLocal, idx |-> st.idx + 1,
                    out |-> Append(st.out, ChunkDef(st.idx, bgs + startLocal, bgs + endLocal)),
                    skip |-> st.skip]
              ELSE [last |-> endLocal, idx |-> st.idx, out |-> st.out,
                    skip |-> Append(st.skip,
                                    ChunkDef(st.idx, bgs + startLocal, bgs + endLocal))],
              bgs)

\* (pos / sampleRate) >= limitSec
LimitHit(pos, limitMs) == limitMs # NoLimit /\ pos >= SamplesOfMs(limitMs)

\* getVADChunks without the safety valve
CarryOverNeverTooLong(leftoverSamples, BATCH_SAMPLES) == FALSE

\* leftoverSamples > BATCH_SAMPLES * 3
CarryOverTooLong(leftoverSamples, BATCH_SAMPLES) == leftoverSamples > BATCH_SAMPLES * 3

\* getVADChunks flushing the buffer at the limit only
FlushAtLimitOnly(isEOF, isLimitReached) == isLimitReached

\* if (isEOF || isLimitReached)  -- "Flush Everything"
FlushEverything(isEOF, isLimitReached) == isEOF \/ isLimitReached

VADInit(audioData) ==
    [kind |-> "vad", filePointer |-> 0, globalIndex |-> 0,
     buffer |-> EmptyAudio(audioData.q),
     bufferGlobalStart |-> 0, done |-> FALSE, out |-> <<>>, skipped |-> <<>>]

VADStep(g, audioData, cfg, limitMs) ==
    IF ~(g.filePointer < AudioLen(audioData)) \/ LimitHit(g.filePointer, limitMs)
    THEN [g EXCEPT !.done = TRUE, !.out = <<>>]
    ELSE
    LET BATCH_SAMPLES == SamplesOfMs(cfg.batchMs)
        batchEnd == Min(g.filePointer + BATCH_SAMPLES, AudioLen(audioData))
        buffer == Concat(g.buffer, Slice(audioData, g.filePointer, batchEnd))
        splitIndices == scanForSplitPoints(buffer, cfg.minSilenceMs, cfg.thr)
        y == YieldSplits(splitIndices, 1,
                         [last |-> 0, idx |-> g.globalIndex, out |-> <<>>, skip |-> <<>>],
                         g.bufferGlobalStart)
        lastSplitLocal == y.last
        isEOF == batchEnd >= AudioLen(audioData)
        isLimitReached == LimitHit(batchEnd, limitMs)
        leftoverSamples == AudioLen(buffer) - lastSplitLocal
        flush == ChunkDef(y.idx, g.bufferGlobalStart + lastSplitLocal,
                                 g.bufferGlobalStart + AudioLen(buffer))
    IN IF FlushEverything(isEOF, isLimitReached)
       THEN [kind |-> "vad", filePointer |-> batchEnd,
             globalIndex |-> IF leftoverSamples > 0 THEN y.idx + 1 ELSE y.idx,
             buffer |-> EmptyAudio(audioData.q),
             bufferGlobalStart |-> g.bufferGlobalStart,
             done |-> isLimitReached,
             out |-> IF leftoverSamples > 0 THEN Append(y.out, flush) ELSE y.out,
             skipped |-> g.skipped \o y.skip]
       ELSE IF CarryOverTooLong(leftoverSamples, BATCH_SAMPLES)
       THEN [kind |-> "vad", filePointer |-> batchEnd,
             globalIndex |-> y.idx + 1,
             buffer |-> EmptyAudio(audioData.q),
             bufferGlobalStart |-> batchEnd,
             done |-> FALSE,
             out |-> Append(y.out, flush),
             skipped |-> g.skipped \o y.skip]
       ELSE [kind |-> "vad", filePointer |-> batchEnd,
             globalIndex |-> y.idx,
             buffer |-> Slice(buffer, lastSplitLocal, AudioLen(buffer)),
             bufferGlobalStart |-> g.bufferGlobalStart + lastSplitLocal,
             done |-> FALSE,
             out |-> y.out,
             skipped |-> g.skipped \o y.skip]

\* ---------------------------------------------------------------------------
\* Segmenter: getFixedChunks, one iteration of the while loop per FixedStep.
\* ---------------------------------------------------------------------------
CHUNK_SCHEDULE_ENDS == <<20, 60, 180>>

STANDARD_CHUNK_DURATION == 180

FixedInit ==
    [kind |-> "fixed", currentSampleOffset |-> 0, scheduleIndex |-> 0,
     globalIndex |-> 0, done |-> FALSE, out |-> <<>>]

\* getFixedChunks without the scheduleIndex++ at the end of the loop body
FixedStepStuckSchedule(g, audioData, limitMs) ==
    LET totalSamples == AudioLen(audioData)
        off == g.currentSampleOffset
        scheduled == IF g.scheduleIndex < Len(CHUNK_SCHEDULE_ENDS)
                     THEN LET e == CHUNK_SCHEDULE_ENDS[g.scheduleIndex + 1] * SAMPLE_RATE
                          IN IF e <= off THEN off + STANDARD_CHUNK_DURATION * SAMPLE_RATE ELSE e
                     ELSE off + STANDARD_CHUNK_DURATION * SAMPLE_RATE
        chunkEndSamples == Min(scheduled, totalSamples)
    IN IF ~(off < totalSamples) \/ LimitHit(off, limitMs) \/ chunkEndSamples <= off
       THEN [g EXCEPT !.done = TRUE, !.out = <<>>]
       ELSE [kind |-> "fixed", currentSampleOffset |-> chunkEndSamples,
             scheduleIndex |-> g.scheduleIndex,
             globalIndex |-> g.globalIndex + 1,
             done |-> FALSE,
             out |-> <<ChunkDef(g.globalIndex, off, chunkEndSamples)>>]

FixedStep(g, audioData, limitMs) ==
    LET totalSamples == AudioLen(audioData)
        off == g.currentSampleOffset
        scheduled == IF g.scheduleIndex < Len(CHUNK_SCHEDULE_ENDS)
                     THEN LET e == CHUNK_SCHEDULE_ENDS[g.scheduleIndex + 1] * SAMPLE_RATE
                          IN IF e <= off THEN off + STANDARD_CHUNK_DURATION * SAMPLE_RATE ELSE e
                     ELSE off + STANDARD_CHUNK_DURATION * SAMPLE_RATE
        chunkEndSamples == Min(scheduled, totalSamples)
    IN IF ~(off < totalSamples) \/ LimitHit(off, limitMs) \/ chunkEndSamples <= off
       THEN [g EXCEPT !.done = TRUE, !.out = <<>>]
       ELSE [kind |-> "fixed", currentSampleOffset |-> chunkEndSamples,
             scheduleIndex |-> g.scheduleIndex + 1,
             globalIndex |-> g.globalIndex + 1,
             done |-> FALSE,
             out |-> <<ChunkDef(g.globalIndex, off, chunkEndSamples)>>]

\* getChunkDefinitions
GenInit(method, audioData) == IF method = "vad" THEN VADInit(audioData) ELSE FixedInit

GenStep(g, audioData, cfg, limitMs) ==
    IF g.kind = "vad" THEN VADStep(g, audioData, cfg, limitMs)
    ELSE FixedStep(g, audioData, limitMs)

\* ---------------------------------------------------------------------------
\* Times and texts
\* ---------------------------------------------------------------------------
TicksPerSec == 5 * 1000

\* sample / SAMPLE_RATE, in ticks (exact for sample counts that are multiples of 16)
TimeOfSample(n) == (n * 5) \div 16

\* a text is a sequence of one-character strings
LowerOf(c) ==
    IF c = "A" THEN "a" ELSE IF c = "B" THEN "b" ELSE IF c = "C" THEN "c"
    ELSE IF c = "D" THEN "d" ELSE IF c = "X" THEN "x" ELSE IF c = "Y" THEN "y"
    ELSE c

\* String.prototype.toLowerCase
ToLower(t) == [k \in 1..Len(t) |-> LowerOf(t[k])]

RECURSIVE TrimLeft(_)
TrimLeft(t) == IF t # <<>> /\ Head(t) = " " THEN TrimLeft(Tail(t)) ELSE t

RECURSIVE TrimRight(_)
TrimRight(t) ==
    IF t # <<>> /\ Last(t) = " " THEN TrimRight(SubSeq(t, 1, Len(t) - 1)) ELSE t

\* String.prototype.trim
Trim(t) == TrimRight(TrimLeft(t))

\* t.replace(/[.,?!]/g, '')
StripPunct(t) == SelectSeq(t, LAMBDA c : c \notin {".", ",", "?", "!"})

\* String.prototype.endsWith
EndsWith(t, suffix) ==
    /\ Len(suffix) <= Len(t)
    /\ SubSeq(t, Len(t) - Len(suffix) + 1, Len(t)) = suffix

\* String.prototype.includes
Includes(t, part) ==
    \E k \in 0..(Len(t) - Len(part)) : SubSeq(t, k + 1, k + Len(part)) = part

Segment(id, start, end, text) == [id |-> id, start |-> start, end |-> end, text |-> text]

\* segs.map((s, i) => ({ ...s, id: i }))
Reindex(segs) == [k \in 1..Len(segs) |-> [segs[k] EXCEPT !.id = k - 1]]

RECURSIVE InsertByStart(_, _)
\* insert x behind every element whose start is <= x.start
InsertByStart(sorted, x) ==
    IF sorted = <<>> THEN <<x>>
    ELSE IF Last(sorted).start <= x.start THEN Append(sorted, x)
    ELSE Append(InsertByStart(SubSeq(sorted, 1, Len(sorted) - 1), x), Last(sorted))

RECURSIVE SortByStart(_)
\* Array.prototype.sort((a, b) => a.start - b.start), a stable sort
SortByStart(segs) ==
    IF segs = <<>> THEN <<>>
    ELSE InsertByStart(SortByStart(SubSeq(segs, 1, Len(segs) - 1)), Last(segs))

\* ---------------------------------------------------------------------------
\* parseTimestamp and detectTimeScale.  Raw segments carry numbers (typeof val
\* === 'number'), held in fifths.  A scale is held as its divisor: 1 for 1.0,
\* 100 for 0.01, 1000 for 0.001.
\* ---------------------------------------------------------------------------
parseTimestamp(val) == val

\* raw * scale, in ticks
Scaled(raw, div) == raw * (1000 \div div)

Candidates == <<1, 100, 1000>>

RECURSIVE SumDur(_)
SumDur(parsed) ==
    IF parsed = <<>> THEN 0 ELSE (Head(parsed).end - Head(parsed).start) + SumDur(Tail(parsed))

RECURSIVE MaxEndOf(_)
MaxEndOf(parsed) ==
    IF Len(parsed) = 1 THEN parsed[1].end
    ELSE Max(Head(parsed).end, MaxEndOf(Tail(parsed)))

\* the sort of detectTimeScale with its comparator reversed (distB - distA)
FirstFarthest(cands, dists) ==
    LET best == CHOOSE k \in 1..Len(cands) :
                   /\ \A m \in 1..Len(cands) : dists[k] >= dists[m]
                   /\ \A m \in 1..(k - 1) : dists[m] < dists[k]
    IN cands[best]

\* first element of cands.sort((a, b) => dist(a) - dist(b)), dists[k] being
\* dist(cands[k]): the earliest candidate of least distance
FirstClosest(cands, dists) ==
    LET best == CHOOSE k \in 1..Len(cands) :
                   /\ \A m \in 1..Len(cands) : dists[k] <= dists[m]
                   /\ \A m \in 1..(k - 1) : dists[m] > dists[k]
    IN cands[best]

detectTimeScale(segments, chunkDuration) ==
    LET parsed == SelectSeq(
                    [k \in 1..Len(segments) |->
                        [start |-> parseTimestamp(segments[k].start),
                         end |-> parseTimestamp(segments[k].end)]],
                    LAMBDA s : s.end > s.start /\ s.end - s.start > 0)
        n == Len(parsed)
        sum == SumDur(parsed)
        maxEnd == MaxEndOf(parsed)
        \* 0.2 <= avgDur * scale <= 30.0
        isDurationReasonable(d) == sum >= n * d /\ sum <= 150 * n * d
        \* maxEnd * scale <= chunkDuration * 1.5
        fitsInChunk(d) == 2 * Scaled(maxEnd, d) <= 3 * chunkDuration
        validCandidates ==
            SelectSeq(Candidates, LAMBDA d : isDurationReasonable(d) /\ fitsInChunk(d))
        \* |avgDur * scale - 3.0|, times n
        distAvg(d) == Abs(Scaled(sum, d) - 3 * TicksPerSec * n)
        \* |maxEnd * scale - chunkDuration|
        distEnd(d) == Abs(Scaled(maxEnd, d) - chunkDuration)
    IN IF n = 0 THEN 1
       ELSE IF Len(validCandidates) = 1 THEN validCandidates[1]
       ELSE IF Len(validCandidates) > 1
            THEN FirstClosest(validCandidates,
                     [k \in 1..Len(validCandidates) |-> distAvg(validCandidates[k])])
       ELSE FirstClosest(Candidates, [k \in 1..Len(Candidates) |-> distEnd(Candidates[k])])

\* ---------------------------------------------------------------------------
\* Cloud path: the success branch of processChunk and updateProgress
\* ---------------------------------------------------------------------------
\* rawSegments.map(...).filter(s => s.text.length > 0)
ScaleAndOffset(rawSegments, scale, offset) ==
    SelectSeq(
        [k \in 1..Len(rawSegments) |->
            Segment(0,
                    Scaled(parseTimestamp(rawSegments[k].start), scale) + offset,
                    Scaled(parseTimestamp(rawSegments[k].end), scale) + offset,
                    Trim(rawSegments[k].text))],
        LAMBDA s : Len(s.text) > 0)

processedSegments(rawSegments, chunkDef) ==
    LET timeOffset == TimeOfSample(chunkDef.start)
        actualDuration == TimeOfSample(chunkDef.end - chunkDef.start)
        scale == detectTimeScale(rawSegments, actualDuration)
    IN ScaleAndOffset(rawSegments, scale, timeOffset)

RECURSIVE CollectResults(_, _, _)
\* for (i = from; i <= maxIndexFound; i++) if (resultsMap[i]) all = all.concat(resultsMap[i])
CollectResults(resultsMap, from, maxIndexFound) ==
    IF from > maxIndexFound THEN <<>>
    ELSE (IF from \in DOMAIN resultsMap THEN resultsMap[from] ELSE <<>>)
         \o CollectResults(resultsMap, from + 1, maxIndexFound)

\* updateProgress with the collecting loop stopping one index short (i < maxIndexFound)
updateProgressShort(resultsMap, maxIndexFound) ==
    LET allSegments == CollectResults(resultsMap, 0, maxIndexFound - 1)
    IN [call |-> Len(allSegments) > 0,
        snap |-> Reindex(SortByStart(allSegments))]

\* updateProgress: [call |-> onProgress is invoked, snap |-> its argument]
updateProgress(resultsMap, maxIndexFound) ==
    LET allSegments == CollectResults(resultsMap, 0, maxIndexFound)
    IN [call |-> Len(allSegments) > 0,
        snap |-> Reindex(SortByStart(allSegments))]

\* the final pass of generateSubtitlesOnline
finalSegments(resultsMap, maxIndexFound) ==
    Reindex(CollectResults(resultsMap, 0, maxIndexFound))

\* ---------------------------------------------------------------------------
\* Local-server path: the merge loop of generateSubtitlesLocalServer
\* ---------------------------------------------------------------------------
LOCAL_OVERLAP == TicksPerSec

RECURSIVE LocalMerge(_, _)
LocalMerge(allSegments, chunkSegments) ==
    IF chunkSegments = <<>> THEN allSegments
    ELSE
    LET seg == Head(chunkSegments)
        rest == Tail(chunkSegments)
    IN IF allSegments = <<>>
       THEN LocalMerge(IF seg.end > seg.start THEN <<seg>> ELSE <<>>, rest)
       ELSE
       LET last == Last(allSegments)
           cleanSeg == Trim(ToLower(seg.text))
           cleanLast == Trim(ToLower(last.text))
           adjusted == IF seg.start < last.end /\ last.end - seg.start < LOCAL_OVERLAP
                       THEN [seg EXCEPT !.start = last.end]
                       ELSE seg
       IN IF seg.text = last.text THEN LocalMerge(allSegments, rest)
          ELSE IF Len(cleanSeg) > 3 /\ EndsWith(cleanLast, cleanSeg)
          THEN LocalMerge(allSegments, rest)
          ELSE IF adjusted.end > adjusted.start
          THEN LocalMerge(Append(allSegments, adjusted), rest)
          ELSE LocalMerge(allSegments, rest)

\* the rawSegments of a response body: data.segments, the body itself when it
\* is an array, or one segment spanning the chunk when only data.text is there.
\* chunkDuration is in ticks; as a raw number of seconds it is held in fifths.
LocalRawSegments(data, chunkDuration) ==
    IF data.kind = "segments" \/ data.kind = "array" THEN data.segments
    ELSE IF data.kind = "text" /\ data.text # <<>>
    THEN <<[start |-> 0, end |-> chunkDuration \div 1000, text |-> data.text]>>
    ELSE <<>>

\* ---------------------------------------------------------------------------
\* In-process path: worker.onmessage for a 'partial' message
\* ---------------------------------------------------------------------------
INPROC_OVERLAP == TicksPerSec \div 2

Hallucinations ==
    { <<"y", "o", "u">>,
      <<"t", "h", "a", "n", "k", " ", "y", "o", "u">>,
      <<"t", "h", "a", "n", "k", "s", " ", "f", "o", "r", " ",
        "w", "a", "t", "c", "h", "i", "n", "g">>,
      <<".">> }

SubtitleBy == <<"s", "u", "b", "t", "i", "t", "l", "e", " ", "b", "y">>

\* the filter of step 1
IsValidSegment(s) ==
    LET t == Trim(ToLower(s.text))
    IN /\ s.text # <<>>
       /\ t \notin Hallucinations
       /\ ~Includes(t, SubtitleBy)
       /\ ~((s.end - s.start) * 10 < TicksPerSec /\ Len(t) > 5)

RECURSIVE PartialMerge(_, _)
\* step 2: deduplicate and merge
PartialMerge(accumulated, validSegments) ==
    IF validSegments = <<>> THEN accumulated
    ELSE
    LET seg == Head(validSegments)
        rest == Tail(validSegments)
    IN IF accumulated = <<>>
       THEN PartialMerge(IF seg.end > seg.start THEN <<seg>> ELSE <<>>, rest)
       ELSE
       LET last == Last(accumulated)
           cleanSeg == Trim(StripPunct(ToLower(seg.text)))
           cleanLast == Trim(StripPunct(ToLower(last.text)))
           small == seg.start < last.end /\ last.end - seg.start < INPROC_OVERLAP
           contained == seg.start < last.end /\ ~small /\ seg.end <= last.end
           adjusted == IF small THEN [seg EXCEPT !.start = last.end] ELSE seg
       IN IF seg.text = last.text THEN PartialMerge(accumulated, rest)
          ELSE IF Len(cleanSeg) > 2 /\ EndsWith(cleanLast, cleanSeg)
          THEN PartialMerge(accumulated, rest)
          ELSE IF contained THEN PartialMerge(accumulated, rest)
          ELSE IF adjusted.end > adjusted.start
          THEN PartialMerge(Append(accumulated, adjusted), rest)
          ELSE PartialMerge(accumulated, rest)

\* the array accumulatedSegments refers to after the pushes of step 2 and the
\* sort, both done in place: the same array object, with these contents
PushedAndSorted(accumulated, data) ==
    LET rawSegments == [k \in 1..Len(data) |->
                           Segment(0, data[k].start, data[k].end, Trim(data[k].text))]
        validSegments == SelectSeq(rawSegments, IsValidSegment)
    IN SortByStart(PartialMerge(accumulated, validSegments))

\* the whole 'partial' branch: the new accumulatedSegments, a new array made
\* by map().
\* data: the adjustedChunks posted by the worker, [start, end, text] in ticks
OnPartial(accumulated, data) ==
    LET rawSegments == [k \in 1..Len(data) |->
                           Segment(0, data[k].start, data[k].end, Trim(data[k].text))]
        validSegments == SelectSeq(rawSegments, IsValidSegment)
    IN Reindex(PushedAndSorted(accumulated, data))

\* ---------------------------------------------------------------------------
\* State
\* ---------------------------------------------------------------------------
VARIABLES
    segIn,      \* segmenter run: [method, audioData, cfg, limitMs]
    gen,        \* segmenter run: generator state
    yielded,    \* segmenter run: chunks yielded so far, in yield order
    activeJobId,                 \* module global
    accumulatedSegments,         \* module global
    onSubtitleProgressCallback,  \* module global: 0 (null) or the job whose onProgress it is
    worker,                      \* module global: TRUE once initWorker has created the Worker
    jobs,       \* the calls of generateSubtitles, in call order
    toWorker,   \* messages posted to the Worker, not yet handled
    workerTasks,\* 'generate' handlers running inside the Worker
    fromWorker, \* messages posted by the Worker, not yet handled
    answers,    \* number of backend calls that have returned or thrown so far
    scaleIn,    \* detectTimeScale run: [segments, chunkDuration, unit]
    scaleOut,   \* detectTimeScale run: 0, or the scale returned (as its divisor)
    app         \* the App component: its state, refs and handleGenerate calls

segVars == <<segIn, gen, yielded>>

scaleVars == <<scaleIn, scaleOut>>

pipeVars == <<activeJobId, accumulatedSegments, onSubtitleProgressCallback, worker,
              jobs, toWorker, workerTasks, fromWorker, answers>>

vars == <<segIn, gen, yielded, activeJobId, accumulatedSegments,
          onSubtitleProgressCallback, worker, jobs, toWorker, workerTasks, fromWorker,
          answers, scaleIn, scaleOut, app>>

\* ---------------------------------------------------------------------------
\* Segmenter runs: one generator driven to exhaustion
\* ---------------------------------------------------------------------------
VadCell == WindowSize \div 2

Waveforms(q, maxLen, levels) ==
    UNION {[q : {q}, e : [1..n -> levels], off : {0}] : n \in 0..maxLen}

VadConfigs ==
    [batchMs : {50, 100}, minSilenceMs : {50, 100}, thr : {<<1, 4>>}]

FixedConfig == [batchMs |-> 120000, minSilenceMs |-> 400, thr |-> <<1, 4>>]

SegInputs ==
    [method : {"vad"}, audioData : Waveforms(VadCell, MaxVadLen, {0, 1}),
     cfg : VadConfigs, limitMs : {NoLimit, 150}]
    \cup
    [method : {"fixed"}, audioData : Waveforms(SAMPLE_RATE, MaxFixedLen, {0}),
     cfg : {FixedConfig}, limitMs : {NoLimit, 30000}]

\* the pipeline at rest
PipeIdle ==
    /\ activeJobId = 0
    /\ accumulatedSegments = <<>>
    /\ onSubtitleProgressCallback = 0
    /\ worker = FALSE
    /\ jobs = <<>>
    /\ toWorker = <<>>
    /\ workerTasks = {}
    /\ fromWorker = <<>>
    /\ answers = 0

\* no call of detectTimeScale under observation
ScaleIdle ==
    /\ scaleIn = [segments |-> <<>>, chunkDuration |-> 0, unit |-> 0]
    /\ scaleOut = 0

\* the App as mounted: no file, no request, nothing shown
AppIdle ==
    app = [isProcessing |-> FALSE, processingId |-> 0, videoFile |-> 0, cache |-> 0,
           subtitles |-> [req |-> 0, file |-> 0], reqs |-> <<>>]

InitSeg ==
    /\ segIn \in SegInputs
    /\ gen = GenInit(segIn.method, segIn.audioData)
    /\ yielded = <<>>
    /\ PipeIdle
    /\ ScaleIdle
    /\ AppIdle

\* one iteration of getVADChunks' while loop (or its exit)
VADIterate ==
    /\ segIn.method = "vad"
    /\ ~gen.done
    /\ gen' = VADStep(gen, segIn.audioData, segIn.cfg, segIn.limitMs)
    /\ yielded' = yielded \o gen'.out
    /\ UNCHANGED <<segIn, scaleVars, pipeVars, app>>

\* one iteration of getFixedChunks' while loop (or its exit)
FixedIterate ==
    /\ segIn.method = "fixed"
    /\ ~gen.done
    /\ gen' = FixedStep(gen, segIn.audioData, segIn.limitMs)
    /\ yielded' = yielded \o gen'.out
    /\ UNCHANGED <<segIn, scaleVars, pipeVars, app>>

NextSeg == VADIterate \/ FixedIterate

SpecSeg == InitSeg /\ [][NextSeg]_vars

\* ---------------------------------------------------------------------------
\* Segmenter claims
\* ---------------------------------------------------------------------------
Contiguous(chunks) ==
    \A k \in 1..Len(chunks) :
        chunks[k].start = (IF k = 1 THEN 0 ELSE chunks[k - 1].end)

\* C4: for any waveform and any VAD settings (no limit) the chunks yielded by
\* getVADChunks start at sample 0, each starts where the previous one ended,
\* and the last one ends at total_samples.
C4_VADCoversWaveform ==
    (segIn.method = "vad" /\ segIn.limitMs = NoLimit) =>
        /\ Contiguous(yielded)
        /\ (gen.done /\ AudioLen(segIn.audioData) > 0) =>
              (yielded # <<>> /\ Last(yielded).end = AudioLen(segIn.audioData))

\* end boundary, in seconds, of the k-th chunk (k = 1, 2, ...) of the schedule
ScheduleEnd(k) == IF k = 1 THEN 20 ELSE IF k = 2 THEN 60 ELSE 180 * (k - 2)

\* C5: without a limit getFixedChunks yields contiguous chunks from sample 0
\* whose ends are 20 s, 60 s, 180 s and then every further 180 s, the last one
\* clamped to total_samples, so that [0, total_samples) is covered exactly.
C5_FixedSchedule ==
    (segIn.method = "fixed" /\ segIn.limitMs = NoLimit) =>
        /\ Contiguous(yielded)
        /\ \A k \in 1..Len(yielded) :
              yielded[k].end = Min(ScheduleEnd(k) * SAMPLE_RATE, AudioLen(segIn.audioData))
        /\ (gen.done /\ AudioLen(segIn.audioData) > 0) =>
              (yielded # <<>> /\ Last(yielded).end = AudioLen(segIn.audioData))

C5_Witness ==
    /\ segIn.method = "fixed" /\ segIn.limitMs = NoLimit
    /\ gen.done
    /\ Len(yielded) = 5
    /\ yielded[4].end = 360 * SAMPLE_RATE
    /\ yielded[5].end = AudioLen(segIn.audioData)
    /\ yielded[5].end < 540 * SAMPLE_RATE

\* the silence runs of a waveform with speech on both sides, as [a, len] in
\* samples: maximal stretches of cells of amplitude 0
SilenceRuns(audio) ==
    {[a |-> (i - 1) * audio.q, len |-> (j - i + 1) * audio.q] :
        <<i, j>> \in {p \in (1..Len(audio.e)) \X (1..Len(audio.e)) :
                        /\ 1 < p[1] /\ p[1] <= p[2] /\ p[2] < Len(audio.e)
                        /\ \A k \in p[1]..p[2] : audio.e[k] = 0
                        /\ audio.e[p[1] - 1] # 0 /\ audio.e[p[2] + 1] # 0}}

\* the chunk boundaries yielded so far
Boundaries == {yielded[k].start : k \in 1..Len(yielded)} \cup
              {yielded[k].end : k \in 1..Len(yielded)}

BoundariesInside(run) == {b \in Boundaries : run.a < b /\ b < run.a + run.len}

\* C13: for a waveform with a silence run of length L >= min_silence_seconds
\* at samples [a, a+L) with speech on both sides, wherever the run lies
\* relative to batch boundaries, getVADChunks yields no chunk boundary strictly
\* inside (a, a+L) other than the midpoint of that run (taken to within one
\* 50 ms analysis window, the resolution of scanForSplitPoints).
C13_OnlyMidpointInsideSilence ==
    (segIn.method = "vad" /\ segIn.limitMs = NoLimit) =>
        \A run \in SilenceRuns(segIn.audioData) :
            SilenceLongEnough(run.len, segIn.cfg.minSilenceMs) =>
                \A b \in BoundariesInside(run) :
                    Abs(b - (run.a + (run.len \div 2))) < WindowSize

\* a waveform without any silence
NoSilence(audio) == \A k \in 1..Len(audio.e) : audio.e[k] # 0

\* C14: in VAD mode on a waveform with no silence run at all, every yielded
\* chunk is at most 3 x batch_size + batch_size long, a split is forced once
\* the unsplit carry-over exceeds 3 x batch_size (so no more than 3 x
\* batch_size of the audio read is left unyielded after an iteration), and
\* every chunk, the one after a forced split too, starts exactly at the sample
\* where the chunk before it ended.
C14_ForcedSplitBound ==
    (segIn.method = "vad" /\ NoSilence(segIn.audioData)) =>
        LET BATCH_SAMPLES == SamplesOfMs(segIn.cfg.batchMs)
            lastEnd == IF yielded = <<>> THEN 0 ELSE Last(yielded).end
        IN /\ \A k \in 1..Len(yielded) :
                 yielded[k].end - yielded[k].start <= 3 * BATCH_SAMPLES + BATCH_SAMPLES
           /\ gen.filePointer - lastEnd <= 3 * BATCH_SAMPLES
           /\ Contiguous(yielded)

\* a forced chunk of four batches, and the chunk after it
C14_Witness ==
    /\ segIn.method = "vad" /\ NoSilence(segIn.audioData)
    /\ Len(yielded) = 2
    /\ yielded[1].end - yielded[1].start = 4 * SamplesOfMs(segIn.cfg.batchMs)
    /\ yielded[1].end < AudioLen(segIn.audioData)
    /\ yielded[2].start = yielded[1].end
    /\ yielded[2].end = AudioLen(segIn.audioData)

\* the candidates dropped as micro-chunks that share the pending index of c:
\* candidates dropped one after the other with no yield in between
SkippedRun(c) == {d \in {gen.skipped[n] : n \in 1..Len(gen.skipped)} : d.index = c.index}

\* C22: in VAD mode a candidate chunk of at most 0.2 s is not emitted and its
\* samples go into the next emitted chunk: no yielded chunk is the candidate
\* itself, and the next chunk yielded after it starts where the dropped
\* candidate (the first of them, when several are dropped in a row) started.
C22_MicroChunkMergedIntoNext ==
    segIn.method = "vad" =>
        \A n \in 1..Len(gen.skipped) :
            LET c == gen.skipped[n] IN
            /\ (c.end - c.start) * 5 <= SAMPLE_RATE
            /\ \A k \in 1..Len(yielded) :
                  /\ ~(yielded[k].start = c.start /\ yielded[k].end = c.end)
                  /\ yielded[k].index = c.index =>
                        \A d \in SkippedRun(c) : yielded[k].start <= d.start

\* C23: with limit_seconds = L set, in both strategies, the chunks yielded are
\* a contiguous prefix starting at sample 0 and none of them contains a sample
\* at or beyond L seconds: every chunk end is at most L x sample_rate.
C23_LimitTruncates ==
    segIn.limitMs # NoLimit =>
        /\ Contiguous(yielded)
        /\ \A k \in 1..Len(yielded) : yielded[k].end <= SamplesOfMs(segIn.limitMs)

\* C28: in both strategies, with or without a limit, the k-th chunk yielded
\* (counting from 0) carries index k and has start < end.
C28_IndexedAndNonEmpty ==
    \A k \in 1..Len(yielded) :
        /\ yielded[k].index = k - 1
        /\ yielded[k].start < yielded[k].end

\* a VAD run that has dropped a micro-chunk, has yielded two chunks after it
\* and is over
C28_Witness ==
    /\ segIn.method = "vad"
    /\ gen.done
    /\ gen.skipped # <<>>
    /\ Len(yielded) >= 2

\* lastSplitLocal after STEP 4 of the iteration that starts in generator state g
LastSplitOf(g) ==
    LET batchEnd == Min(g.filePointer + SamplesOfMs(segIn.cfg.batchMs),
                        AudioLen(segIn.audioData))
        pts == scanForSplitPoints(Concat(g.buffer, Slice(segIn.audioData, g.filePointer, batchEnd)),
                                  segIn.cfg.minSilenceMs, segIn.cfg.thr)
    IN IF pts = <<>> THEN 0 ELSE Last(pts)

\* C30: in VAD mode without a limit, the iteration that reaches the end of the
\* waveform yields as its last chunk everything still in the buffer, from the
\* last split point to total_samples, however short it is and whether or not
\* it ends in silence; nothing is yielded after that iteration.
C30_FinalFlush ==
    [][(segIn.method = "vad" /\ segIn.limitMs = NoLimit) =>
          /\ (gen.filePointer < AudioLen(segIn.audioData)
                 /\ gen'.filePointer = AudioLen(segIn.audioData)) =>
                /\ gen'.out # <<>>
                /\ Last(gen'.out).start = gen.bufferGlobalStart + LastSplitOf(gen)
                /\ Last(gen'.out).end = AudioLen(segIn.audioData)
                /\ yielded' = yielded \o gen'.out
          /\ gen.filePointer = AudioLen(segIn.audioData) => yielded' = yielded
      ]_vars

\* a finished VAD run without a limit whose final chunk is at most 0.2 s long,
\* ends in speech and follows another chunk
C30_Witness ==
    /\ segIn.method = "vad" /\ segIn.limitMs = NoLimit
    /\ gen.done
    /\ Len(yielded) >= 2
    /\ Last(yielded).end = AudioLen(segIn.audioData)
    /\ (Last(yielded).end - Last(yielded).start) * 5 <= SAMPLE_RATE
    /\ Last(segIn.audioData.e) # 0

\* ---------------------------------------------------------------------------
\* Segmenter runs on a long recording: 200 s with two planted silences of
\* 0.6 s, at 18 s and at 58 s, in cells of 0.2 s
\* ---------------------------------------------------------------------------
ScenarioCell == SAMPLE_RATE \div 5

\* squared amplitudes: floor during the silences, speech elsewhere
ScenarioAudio(floor, speech) ==
    [q |-> ScenarioCell,
     e |-> [k \in 1..(200 * 5) |->
              IF (k - 1) \in (18 * 5)..(18 * 5 + 2) \/ (k - 1) \in (58 * 5)..(58 * 5 + 2)
              THEN floor ELSE speech],
     off |-> 0]

\* batch 120 s, the threshold between the noise floor and speech
ScenarioInputs ==
    [method : {"vad"},
     audioData : {ScenarioAudio(floor, speech) : floor \in {0, 1}, speech \in {16, 25}},
     cfg : [batchMs : {120 * 1000}, minSilenceMs : {100, 200, 300, 400, 500, 600},
            thr : {<<4, 1>>, <<9, 1>>}],
     limitMs : {NoLimit}]

InitScenario ==
    /\ segIn \in ScenarioInputs
    /\ gen = GenInit(segIn.method, segIn.audioData)
    /\ yielded = <<>>
    /\ PipeIdle
    /\ ScaleIdle
    /\ AppIdle

NextScenario == VADIterate

SpecScenario == InitScenario /\ [][NextScenario]_vars

\* the sample at t tenths of a second
SampleAtTenths(t) == t * (SAMPLE_RATE \div 10)

\* C15: for the 200 s waveform in VAD mode with batch_size 120 s and
\* min_silence <= 0.6 s, with exactly two silence runs of 0.6 s starting at
\* 18 s and 58 s, getVADChunks yields exactly three chunks: [0, 18.3 s),
\* [18.3 s, 58.3 s) and a final flush chunk [58.3 s, 200 s).
C15_EndToEndScenario ==
    (segIn \in ScenarioInputs /\ gen.done) =>
        yielded = <<ChunkDef(0, 0, SampleAtTenths(183)),
                    ChunkDef(1, SampleAtTenths(183), SampleAtTenths(583)),
                    ChunkDef(2, SampleAtTenths(583), SampleAtTenths(200 * 10))>>

\* ---------------------------------------------------------------------------
\* detectTimeScale runs: one call on the raw segments of one chunk
\* ---------------------------------------------------------------------------
\* longest list of raw segments of a chunk
MaxScaleSegs == 2

\* units per second of a backend that reports seconds, centiseconds, milliseconds
Units == {1, 100, 1000}

\* chunk durations (audioChunk.length / SAMPLE_RATE), in ticks
ScaleChunkDurations == {20 * TicksPerSec, 40 * TicksPerSec}

\* utterances as they are in the audio, in fifths of a second from the chunk's
\* start: 0.2 s to 30 s long
TrueSegments ==
    {[start |-> st, end |-> st + du] : st \in {0, 50}, du \in {1, 3, 15, 27, 28, 100, 125, 150}}

\* an utterance as a backend counting `unit` units per second reports it
Reported(seg, unit) == [start |-> seg.start * unit, end |-> seg.end * unit]

\* timestamps that are no utterance of the chunk: reversed, empty, far beyond
\* the chunk
MalformedSegments ==
    {[start |-> 10, end |-> 10], [start |-> 10, end |-> 5],
     [start |-> 400 * 1000, end |-> 400 * 1000 + 5],
     [start |-> 0, end |-> 500 * 1000]}

SeqsUpTo(S, n) == UNION {[1..m -> S] : m \in 0..n}

\* unit 0: the segments are not the report of true utterances
ScaleInputs ==
    {[segments |-> [k \in 1..Len(true) |-> Reported(true[k], unit)],
      chunkDuration |-> dur, unit |-> unit] :
        true \in SeqsUpTo(TrueSegments, MaxScaleSegs) \ {<<>>},
        dur \in ScaleChunkDurations, unit \in Units}
    \cup
    [segments : SeqsUpTo(MalformedSegments \cup {[start |-> 0, end |-> 15]}, MaxScaleSegs),
     chunkDuration : ScaleChunkDurations, unit : {0}]

SegIdle ==
    /\ segIn = [method |-> "fixed", audioData |-> EmptyAudio(SAMPLE_RATE),
                cfg |-> FixedConfig, limitMs |-> NoLimit]
    /\ gen = [FixedInit EXCEPT !.done = TRUE]
    /\ yielded = <<>>

InitScale ==
    /\ scaleIn \in ScaleInputs
    /\ scaleOut = 0
    /\ SegIdle
    /\ PipeIdle
    /\ AppIdle

\* const scale = detectTimeScale(rawSegments, chunkDuration)
Detect ==
    /\ scaleOut = 0
    /\ scaleOut' = detectTimeScale(scaleIn.segments, scaleIn.chunkDuration)
    /\ UNCHANGED <<scaleIn, segVars, pipeVars, app>>

NextScale == Detect

SpecScale == InitScale /\ [][NextScale]_vars

\* ---------------------------------------------------------------------------
\* detectTimeScale claims
\* ---------------------------------------------------------------------------
\* C11: for true segments whose durations lie in [0.2 s, 30 s] and whose ends
\* lie within the chunk duration, detectTimeScale returns 1.0 when they are
\* reported in seconds, 0.01 in centiseconds and 0.001 in milliseconds.
C11_ScaleRoundTrip ==
    (/\ scaleOut # 0
     /\ scaleIn.unit # 0
     /\ \A k \in 1..Len(scaleIn.segments) :
           LET seg == scaleIn.segments[k]
           IN /\ seg.end - seg.start >= scaleIn.unit
              /\ seg.end - seg.start <= 150 * scaleIn.unit
              /\ seg.end * 1000 <= scaleIn.chunkDuration * scaleIn.unit)
    => scaleOut = scaleIn.unit

\* the raw segments with end > start
Forward(segments) == {k \in 1..Len(segments) : segments[k].end > segments[k].start}

RECURSIVE RawDurSum(_, _)
RawDurSum(segments, ks) ==
    IF ks = {} THEN 0
    ELSE LET k == CHOOSE x \in ks : TRUE
         IN (segments[k].end - segments[k].start) + RawDurSum(segments, ks \ {k})

RawMaxEnd(segments, ks) ==
    CHOOSE m \in {segments[k].end : k \in ks} : \A k \in ks : segments[k].end <= m

\* candidate unit u survives: mean duration / u in [0.2 s, 30 s] and
\* max end / u <= 1.5 x chunk duration (raw values in fifths, durations in ticks)
Survives(u, segments, chunkDuration) ==
    LET ks == Forward(segments)
        n == Cardinality(ks)
    IN /\ RawDurSum(segments, ks) >= n * u
       /\ RawDurSum(segments, ks) <= n * u * 30 * 5
       /\ 2 * RawMaxEnd(segments, ks) * (1000 \div u) <= 3 * chunkDuration

\* n * |mean duration / u - 3.0 s|, in ticks
OffTypical(u, segments) ==
    LET ks == Forward(segments)
    IN Abs(RawDurSum(segments, ks) * (1000 \div u) - 3 * TicksPerSec * Cardinality(ks))

\* |max end / u - chunk duration|, in ticks
OffChunkEnd(u, segments, chunkDuration) ==
    Abs(RawMaxEnd(segments, Forward(segments)) * (1000 \div u) - chunkDuration)

Survivors(segments, chunkDuration) ==
    {u \in Units : Survives(u, segments, chunkDuration)}

\* C12: detectTimeScale returns one of 1.0, 0.01, 0.001: 1.0 when no raw
\* segment has end > start; otherwise the single candidate whose scaled mean
\* duration is in [0.2, 30] and whose scaled maximum end is <= 1.5 x chunk
\* duration; among several such the one whose scaled mean duration is closest
\* to 3.0 s; with none the one whose scaled maximum end is closest to the
\* chunk duration.
C12_ScaleSelection ==
    scaleOut # 0 =>
        LET segs == scaleIn.segments
            dur == scaleIn.chunkDuration
            surv == Survivors(segs, dur)
        IN /\ scaleOut \in Units
           /\ Forward(segs) = {} => scaleOut = 1
           /\ (Forward(segs) # {} /\ surv # {}) =>
                 /\ scaleOut \in surv
                 /\ \A u \in surv :
                       OffTypical(scaleOut, segs) <= OffTypical(u, segs)
           /\ (Forward(segs) # {} /\ surv = {}) =>
                 \A u \in Units :
                    OffChunkEnd(scaleOut, segs, dur) <= OffChunkEnd(u, segs, dur)

\* several candidates survive and the one closest to 3.0 s is not 1.0
C12_Witness ==
    /\ scaleOut = 100
    /\ Cardinality(Survivors(scaleIn.segments, scaleIn.chunkDuration)) > 1

\* ---------------------------------------------------------------------------
\* Pipeline: inputs
\* ---------------------------------------------------------------------------
\* calls of generateSubtitles and of cancelSubtitleGeneration in a run: each
\* increments activeJobId
MaxEpoch == 2
\* backend calls that return or throw in one run
MaxAnswers == 3

\* lengths, in seconds, of the waveforms given to the pipeline
PipeAudioSecs == {0, 25, 65}

PipeCell == 5 * SAMPLE_RATE

PipeAudio(secs) == [q |-> PipeCell, e |-> [k \in 1..(secs \div 5) |-> 0], off |-> 0]

Txt_abcd == <<"a", "b", "c", "d">>

Txt_bcd == <<"b", "c", "d">>

Txt_xy == <<"x", "y">>

RawSeg(start, end, text) == [start |-> start, end |-> end, text |-> text]

\* segment lists a backend may answer with, raw numbers in fifths
RawAnswers ==
    { <<RawSeg(5, 20, Txt_bcd), RawSeg(15, 30, Txt_xy)>>,
      <<RawSeg(25, 30, Txt_xy), RawSeg(5, 10, Txt_abcd), RawSeg(15, 15, Txt_xy)>> }

\* what a cloud call may do: a JSON array, an empty response.text, a throw
CloudAnswers ==
    [kind : {"json"}, segments : RawAnswers]
    \cup {[kind |-> "empty", segments |-> <<>>], [kind |-> "fail", segments |-> <<>>]}

\* what the local server may do: a body with segments, a body with text only,
\* a body with neither, a status that is not ok, a throw of fetch or json()
LocalAnswers ==
    [kind : {"segments"}, segments : RawAnswers, text : {<<>>}]
    \cup {[kind |-> "text", segments |-> <<>>, text |-> Txt_abcd],
          [kind |-> "none", segments |-> <<>>, text |-> <<>>],
          [kind |-> "notok", segments |-> <<>>, text |-> <<>>],
          [kind |-> "fail", segments |-> <<>>, text |-> <<>>]}

\* a missing (null) timestamp of the speech model
Null == 0 - 1

\* output.chunks of the speech model for one window, timestamps in fifths of
\* a second, or a throw
ModelOutputs ==
    [kind : {"chunks"}, chunks : RawAnswers \cup {<<RawSeg(Null, Null, Txt_xy)>>}]
    \cup {[kind |-> "fail", chunks |-> <<>>]}

\* the backend a run is configured for (isOffline, localASRConfig.enabled,
\* apiKey), and whether its calls are given the decoded waveform (cachedAudioData)
Backends ==
    [path : {"cloud"}, hasKey : BOOLEAN, cached : {TRUE}]
    \cup [path : {"local", "worker"}, hasKey : {TRUE}, cached : BOOLEAN]

\* the loaded file, the segmentation settings and the backend of a run
PipeSettings ==
    [method : {"fixed"}, audioData : {PipeAudio(secs) : secs \in PipeAudioSecs},
     cfg : {FixedConfig}, limitMs : {NoLimit}, backend : Backends]

\* the arguments of a call of generateSubtitles
JobInputs == {segIn.backend}

\* ---------------------------------------------------------------------------
\* Pipeline: a call of generateSubtitles
\* ---------------------------------------------------------------------------
NoChunk == ChunkDef(-1, 0, 0)

IdleSlot == [pc |-> "idle", chunk |-> NoChunk, attempt |-> 0, calls |-> 0, waits |-> <<>>]

CONCURRENCY_LIMIT == 2

MAX_RETRIES == 3

\* no text-only answer of the local server is the last one
NoFallback == [textOnly |-> FALSE, chunk |-> NoChunk, built |-> <<>>]

NewJob(id, in) ==
    [jobId |-> id, path |-> in.path, audioData |-> segIn.audioData,
     method |-> segIn.method, cfg |-> segIn.cfg, limitMs |-> segIn.limitMs,
     pc |-> "decoding",
     gen |-> GenInit(segIn.method, segIn.audioData), pending |-> <<>>,
     \* generateSubtitlesOnline
     resultsMap |-> <<>>, maxIndexFound |-> -1,
     slots |-> [w \in 1..CONCURRENCY_LIMIT |-> IdleSlot],
     \* generateSubtitlesLocalServer
     allSegments |-> <<>>,
     \* sequential paths: the chunk being transcribed; in-process: chunkHandler registered
     cur |-> NoChunk, listening |-> FALSE,
     \* outcome: the value the promise resolved with
     result |-> <<>>,
     \* observation of the consumer: calls of onProgress, its last argument,
     \* whether it was called while the job was not the active one, chunks
     \* finished, raw segments in the last local-server answer, and
     \* [calls, waits] of the chunks that ran out of retries; chunks got from
     \* chunkGenerator.next(), and the indices of the chunks whose
     \* transcription was started, in that order
     pubCount |-> 0, lastSnap |-> <<>>, lateCall |-> FALSE,
     doneCount |-> 0, lastRaw |-> 0, failLog |-> {},
     pulls |-> 0, started |-> <<>>,
     \* the array last handed to onProgress is the one accumulatedSegments
     \* refers to; an array handed to onProgress was changed afterwards
     aliased |-> FALSE, snapMutated |-> FALSE,
     \* a 'partial' message of the job was merged into the array
     \* accumulatedSegments refers to; worker.onmessage dropped a 'partial' or
     \* 'complete' message of the job at its stale check
     merged |-> FALSE, ignored |-> FALSE,
     \* the promise resolved with an array holding segments although no
     \* 'partial' message of this job had been merged into it
     foreign |-> FALSE,
     \* local server: whether its last answer had data.text only, and then
     \* the chunk it was for and the segments built from it
     fallback |-> NoFallback]

\* onProgress(snap)
Publish(J, snap, active) ==
    [J EXCEPT !.pubCount = @ + 1, !.lastSnap = snap,
              !.lateCall = @ \/ J.jobId # active, !.aliased = FALSE]

\* the generator of job J has run on, to state g: its chunks wait to be handed out
Resumed(J, g) == [J EXCEPT !.gen = g, !.pending = g.out]

RECURSIVE NextAgain_(_)
\* a next() that leaves the chunk it returns at the head of the generator
NextAgain_(J) ==
    IF J.pending # <<>>
    THEN [done |-> FALSE, value |-> Head(J.pending), job |-> [J EXCEPT !.pulls = @ + 1]]
    ELSE IF J.gen.done
    THEN [done |-> TRUE, value |-> NoChunk, job |-> J]
    ELSE NextAgain_(Resumed(J, GenStep(J.gen, J.audioData, J.cfg, J.limitMs)))

RECURSIVE Next_(_)
\* chunkGenerator.next() on the job's generator: [done, value, job].  The
\* generator runs to its next yield; pending holds the chunks of the current
\* loop iteration that are not yet handed out.
Next_(J) ==
    IF J.pending # <<>>
    THEN [done |-> FALSE, value |-> Head(J.pending),
          job |-> [J EXCEPT !.pending = Tail(@), !.pulls = @ + 1]]
    ELSE IF J.gen.done
    THEN [done |-> TRUE, value |-> NoChunk, job |-> J]
    ELSE Next_(Resumed(J, GenStep(J.gen, J.audioData, J.cfg, J.limitMs)))

\* ---------------------------------------------------------------------------
\* Cloud path: generateSubtitlesOnline
\* ---------------------------------------------------------------------------
\* worker(): the loop body from the result n of chunkGenerator.next() to the
\* first await inside processChunk
CloudTaken(J, w, active, n) ==
    IF n.done THEN [n.job EXCEPT !.slots[w].pc = "done"]
    ELSE IF J.jobId # active THEN [n.job EXCEPT !.slots[w].pc = "done"]
    ELSE [n.job EXCEPT
            !.maxIndexFound = Max(@, n.value.index),
            !.started = Append(@, n.value.index),
            !.slots[w] = [pc |-> "calling", chunk |-> n.value, attempt |-> 0,
                          calls |-> 1, waits |-> <<>>]]

\* a worker() that goes round its loop only while no other worker holds a chunk
CloudTakeIfAlone(J, w, active) ==
    IF J.jobId # active THEN [J EXCEPT !.slots[w].pc = "done"]
    ELSE IF \E v \in 1..CONCURRENCY_LIMIT :
               v # w /\ J.slots[v].pc \in {"calling", "backoff"}
    THEN [J EXCEPT !.slots[w].pc = "idle"]
    ELSE CloudTaken(J, w, active, Next_(J))

\* worker(): from the top of the loop to the first await inside processChunk
CloudTake(J, w, active) ==
    IF J.jobId # active THEN [J EXCEPT !.slots[w].pc = "done"]
    ELSE CloudTaken(J, w, active, Next_(J))

\* the final pass made as soon as one worker has returned
CloudSettleAny(J) ==
    IF \E w \in 1..CONCURRENCY_LIMIT : J.slots[w].pc = "done"
    THEN [J EXCEPT !.pc = "resolved",
                   !.result = finalSegments(J.resultsMap, J.maxIndexFound)]
    ELSE [J EXCEPT !.pc = "running"]

\* await Promise.all(workers) and the final pass
CloudSettle(J) ==
    IF \A w \in 1..CONCURRENCY_LIMIT : J.slots[w].pc = "done"
    THEN [J EXCEPT !.pc = "resolved",
                   !.result = finalSegments(J.resultsMap, J.maxIndexFound)]
    ELSE [J EXCEPT !.pc = "running"]

RECURSIVE LaunchWorkers(_, _, _)
\* for (i = 0; i < CONCURRENCY_LIMIT; i++) workers.push(worker())
LaunchWorkers(J, w, active) ==
    IF w > CONCURRENCY_LIMIT THEN J
    ELSE LaunchWorkers(CloudTake(J, w, active), w + 1, active)

\* generateSubtitlesOnline once the audio is there
CloudBegin(J, active) ==
    CloudSettle(LaunchWorkers(Publish(J, <<>>, active), 1, active))

\* the cloud worker publishing after every chunk, without updateProgress's
\* test for an empty concatenation
CloudChunkDoneAlwaysCalls(J, w, segs, active) ==
    LET idx == J.slots[w].chunk.index
        rm == [i \in DOMAIN J.resultsMap \cup {idx} |->
                  IF i = idx THEN segs ELSE J.resultsMap[i]]
        J1 == [J EXCEPT !.resultsMap = rm, !.doneCount = @ + 1]
        up == updateProgress(J1.resultsMap, J1.maxIndexFound)
        J2 == Publish(J1, up.snap, active)
    IN CloudSettle(CloudTake(J2, w, active))

\* the cloud worker going on to its next chunk without resultsMap[index] = segs
CloudChunkDoneUnstored(J, w, segs, active) ==
    LET J1 == [J EXCEPT !.doneCount = @ + 1]
        up == updateProgress(J1.resultsMap, J1.maxIndexFound)
        J2 == IF up.call THEN Publish(J1, up.snap, active) ELSE J1
    IN CloudSettle(CloudTake(J2, w, active))

\* segs = await processChunk(chunkDef) has returned in worker w
CloudChunkDone(J, w, segs, active) ==
    LET idx == J.slots[w].chunk.index
        rm == [i \in DOMAIN J.resultsMap \cup {idx} |->
                  IF i = idx THEN segs ELSE J.resultsMap[i]]
        J1 == [J EXCEPT !.resultsMap = rm, !.doneCount = @ + 1]
        up == updateProgress(J1.resultsMap, J1.maxIndexFound)
        J2 == IF up.call THEN Publish(J1, up.snap, active) ELSE J1
    IN CloudSettle(CloudTake(J2, w, active))

\* 2^(attempt - 1) * 1000 milliseconds
BackoffDelay(attempt) == (2 ^ (attempt - 1)) * 1000

\* the call of worker w settles: the body of the retry loop after the await
CloudCallSettles(J, w, ans, active) ==
    IF ans.kind = "json"
    THEN CloudChunkDone(J, w, processedSegments(ans.segments, J.slots[w].chunk), active)
    ELSE IF ans.kind = "empty"
    THEN CloudChunkDone(J, w, <<>>, active)
    ELSE LET attempt == J.slots[w].attempt + 1 IN
         IF attempt >= MAX_RETRIES
         THEN CloudChunkDone(
                [J EXCEPT !.failLog = @ \cup {[calls |-> J.slots[w].calls,
                                              waits |-> J.slots[w].waits]}],
                w, <<>>, active)
         ELSE [J EXCEPT !.slots[w].pc = "backoff",
                        !.slots[w].attempt = attempt,
                        !.slots[w].waits = Append(@, BackoffDelay(attempt))]

\* ---------------------------------------------------------------------------
\* Local-server path: generateSubtitlesLocalServer
\* ---------------------------------------------------------------------------
\* the head of the for-of loop without its cancellation check
LocalLoopHeadUnchecked(J, active, n) ==
    IF n.done
    THEN [n.job EXCEPT !.pc = "resolved", !.cur = NoChunk,
                       !.result = Reindex(n.job.allSegments)]
    ELSE [n.job EXCEPT !.pc = "running", !.cur = n.value,
                       !.started = Append(@, n.value.index)]

\* the head of the for-of loop, n being the result of chunkGenerator.next():
\* the cancellation check, then the fetch, or the return past the loop
LocalLoopHead(J, active, n) ==
    IF n.done \/ J.jobId # active
    THEN [n.job EXCEPT !.pc = "resolved", !.cur = NoChunk,
                       !.result = Reindex(n.job.allSegments)]
    ELSE [n.job EXCEPT !.pc = "running", !.cur = n.value,
                       !.started = Append(@, n.value.index)]

\* for (const chunkDef of chunkGenerator) { if (cancelled) break; ... fetch
\* and, past the loop, the return
LocalLoop(J, active) == LocalLoopHead(J, active, Next_(J))

\* the fetch of the current chunk settles: the rest of the loop body
LocalFetchSettles(J, ans, active) ==
    LET chunkStartTime == TimeOfSample(J.cur.start)
        chunkDuration == TimeOfSample(J.cur.end - J.cur.start)
        rawSegments == IF ans.kind \in {"notok", "fail"} THEN <<>>
                       ELSE LocalRawSegments(ans, chunkDuration)
        scale == detectTimeScale(rawSegments, chunkDuration)
        chunkSegments == ScaleAndOffset(rawSegments, scale, chunkStartTime)
        merged == LocalMerge(J.allSegments, chunkSegments)
        J1 == [J EXCEPT !.doneCount = @ + 1, !.lastRaw = Len(rawSegments),
                        !.fallback = IF ans.kind = "text" /\ Len(rawSegments) > 0
                                     THEN [textOnly |-> TRUE, chunk |-> J.cur,
                                           built |-> chunkSegments]
                                     ELSE NoFallback]
        J2 == IF Len(rawSegments) > 0
              THEN Publish([J1 EXCEPT !.allSegments = merged], Reindex(merged), active)
              ELSE J1
    IN LocalLoop(J2, active)

\* ---------------------------------------------------------------------------
\* In-process path: the Worker (WORKER_CODE) and the loop of generateSubtitles
\* ---------------------------------------------------------------------------
CHUNK_LENGTH_S == 30

WORKER_CHUNK_SIZE == CHUNK_LENGTH_S * SAMPLE_RATE

\* output.chunks.map(...) of the Worker: timestamps made absolute, in ticks
adjustedChunks(chunks, totalOffset) ==
    [k \in 1..Len(chunks) |->
        LET start == (IF chunks[k].start = Null THEN 0
                      ELSE chunks[k].start * 1000) + totalOffset
            end == (IF chunks[k].end = Null THEN start + 2 * TicksPerSec
                    ELSE chunks[k].end * 1000) + totalOffset
        IN [start |-> start, end |-> end, text |-> chunks[k].text]]

Msg(type, data, jobId) == [type |-> type, data |-> data, jobId |-> jobId]

\* the head of the for-of loop of the in-browser branch, n being the result of
\* chunkGenerator.next(): [job, post]
InProcLoopHead(J, active, accumulated, n) ==
    IF n.done \/ J.jobId # active
    THEN [job |-> [n.job EXCEPT !.pc = "resolved", !.cur = NoChunk, !.listening = FALSE,
                                !.result = accumulated,
                                !.foreign = (accumulated # <<>> /\ ~J.merged)],
          post |-> <<>>]
    ELSE [job |-> [n.job EXCEPT !.pc = "running", !.cur = n.value, !.listening = TRUE,
                                !.started = Append(@, n.value.index)],
          post |-> <<[jobId |-> J.jobId,
                      samples |-> n.value.end - n.value.start,
                      timeOffset |-> TimeOfSample(n.value.start)]>>]

\* the chunk loop of the in-process path, up to the await of the chunk promise:
\* [job, post] with post the 'generate' messages it posts
InProcLoop(J, active, accumulated) == InProcLoopHead(J, active, accumulated, Next_(J))

\* ---------------------------------------------------------------------------
\* Pipeline: actions
\* ---------------------------------------------------------------------------
InitPipe ==
    /\ segIn \in PipeSettings
    /\ gen = [GenInit(segIn.method, segIn.audioData) EXCEPT !.done = TRUE]
    /\ yielded = <<>>
    /\ PipeIdle
    /\ ScaleIdle
    /\ AppIdle

\* generateSubtitles once the audio is there: [job, post]
Begin(J, active, accumulated) ==
    IF J.path = "cloud" THEN [job |-> CloudBegin(J, active), post |-> <<>>]
    ELSE IF J.path = "local" THEN [job |-> LocalLoop(J, active), post |-> <<>>]
    ELSE InProcLoop(J, active, accumulated)

\* accumulatedSegments = []: no array handed out earlier is the current one
Unaliased(js) ==
    [k \in 1..Len(js) |-> [js[k] EXCEPT !.aliased = FALSE, !.merged = FALSE]]

\* the job at place j of js has got as far as b = [job, post]; on the in-process
\* path initWorker() has run and onSubtitleProgressCallback is the job's onProgress
Launch(js, j, b, inproc) ==
    /\ jobs' = [k \in 1..Max(Len(js), j) |-> IF k = j THEN b.job ELSE js[k]]
    /\ toWorker' = toWorker \o b.post
    /\ worker' = (worker \/ inproc)
    /\ onSubtitleProgressCallback' = IF inproc THEN j ELSE onSubtitleProgressCallback

\* generateSubtitles(...) is called: everything up to its first await
StartJob(in) ==
    /\ activeJobId < MaxEpoch
    /\ activeJobId' = activeJobId + 1
    /\ accumulatedSegments' = <<>>
    /\ IF in.path = "cloud" /\ ~in.hasKey
       THEN /\ jobs' = Append(Unaliased(jobs),
                               [NewJob(activeJobId + 1, in) EXCEPT !.pc = "rejected"])
            /\ UNCHANGED <<toWorker, worker, onSubtitleProgressCallback>>
       ELSE IF ~in.cached
       THEN /\ jobs' = Append(Unaliased(jobs), NewJob(activeJobId + 1, in))
            /\ UNCHANGED <<toWorker, worker, onSubtitleProgressCallback>>
       ELSE Launch(Unaliased(jobs), Len(jobs) + 1,
                   Begin(NewJob(activeJobId + 1, in), activeJobId + 1, <<>>),
                   in.path = "worker")
    /\ UNCHANGED <<segVars, scaleVars, workerTasks, fromWorker, answers>>

\* await getAudioData(...) returns the waveform
DecodeDone(j) ==
    /\ jobs[j].pc = "decoding"
    /\ Launch(jobs, j, Begin(jobs[j], activeJobId, accumulatedSegments),
              jobs[j].path = "worker")
    /\ UNCHANGED <<segVars, scaleVars, activeJobId, accumulatedSegments, workerTasks, fromWorker, answers>>

\* await getAudioData(...) throws
DecodeFail(j) ==
    /\ jobs[j].pc = "decoding"
    /\ jobs' = [jobs EXCEPT ![j].pc = "rejected"]
    /\ UNCHANGED <<segVars, scaleVars, activeJobId, accumulatedSegments, onSubtitleProgressCallback,
                   worker, toWorker, workerTasks, fromWorker, answers>>

\* a cancelSubtitleGeneration() that restores the previous epoch
CancelBackwards ==
    /\ activeJobId > 0
    /\ activeJobId' = activeJobId - 1
    /\ UNCHANGED <<segVars, scaleVars, accumulatedSegments, onSubtitleProgressCallback, worker, jobs,
                   toWorker, workerTasks, fromWorker, answers>>

\* cancelSubtitleGeneration()
Cancel ==
    /\ activeJobId < MaxEpoch
    /\ activeJobId' = activeJobId + 1
    /\ UNCHANGED <<segVars, scaleVars, accumulatedSegments, onSubtitleProgressCallback, worker, jobs,
                   toWorker, workerTasks, fromWorker, answers>>

\* the generateContent call of worker w of job j returns or throws: the
\* continuation of worker w
CloudAnswered(j, w, ans) ==
    /\ jobs[j].path = "cloud" /\ jobs[j].pc = "running"
    /\ jobs[j].slots[w].pc = "calling"
    /\ jobs' = [jobs EXCEPT ![j] = CloudCallSettles(jobs[j], w, ans, activeJobId)]
    /\ UNCHANGED <<segVars, scaleVars, activeJobId, accumulatedSegments, onSubtitleProgressCallback,
                   worker, toWorker, workerTasks, fromWorker>>

\* the generateContent call of worker w of job j returns or throws, in a run
\* of at most MaxAnswers backend answers
CloudReturn(j, w, ans) ==
    /\ answers < MaxAnswers
    /\ answers' = answers + 1
    /\ CloudAnswered(j, w, ans)

\* the backoff timer of worker w of job j fires: the next attempt is made
CloudBackoffDone(j, w) ==
    /\ jobs[j].path = "cloud" /\ jobs[j].pc = "running"
    /\ jobs[j].slots[w].pc = "backoff"
    /\ jobs' = [jobs EXCEPT ![j].slots[w].pc = "calling", ![j].slots[w].calls = @ + 1]
    /\ UNCHANGED <<segVars, scaleVars, activeJobId, accumulatedSegments, onSubtitleProgressCallback,
                   worker, toWorker, workerTasks, fromWorker, answers>>

\* the fetch of the local-server job j returns or throws
LocalReturn(j, ans) ==
    /\ jobs[j].path = "local" /\ jobs[j].pc = "running"
    /\ answers < MaxAnswers
    /\ answers' = answers + 1
    /\ jobs' = [jobs EXCEPT ![j] = LocalFetchSettles(jobs[j], ans, activeJobId)]
    /\ UNCHANGED <<segVars, scaleVars, activeJobId, accumulatedSegments, onSubtitleProgressCallback,
                   worker, toWorker, workerTasks, fromWorker>>

\* the Worker takes a 'generate' message: self.onmessage up to the first
\* call of the speech model
WorkerReceive ==
    /\ toWorker # <<>>
    /\ toWorker' = Tail(toWorker)
    /\ LET m == Head(toWorker) IN
       IF m.samples > 0
       THEN /\ workerTasks' = workerTasks \cup
                 {[jobId |-> m.jobId, totalSamples |-> m.samples,
                   globalOffset |-> m.timeOffset, offsetSamples |-> 0]}
            /\ fromWorker' = fromWorker
       ELSE /\ workerTasks' = workerTasks
            /\ fromWorker' = Append(fromWorker, Msg("complete", <<>>, m.jobId))
    /\ UNCHANGED <<segVars, scaleVars, activeJobId, accumulatedSegments, onSubtitleProgressCallback,
                   worker, jobs, answers>>

\* the speech model returns or throws for the current 30-second window of a
\* 'generate' handler: the rest of the loop body, and the end of the handler
WorkerInfer(t, out) ==
    /\ t \in workerTasks
    /\ answers < MaxAnswers
    /\ answers' = answers + 1
    /\ IF out.kind = "fail"
       THEN /\ workerTasks' = workerTasks \ {t}
            /\ fromWorker' = Append(fromWorker, Msg("error", <<>>, t.jobId))
       ELSE LET totalOffset == t.globalOffset + TimeOfSample(t.offsetSamples)
                partial == Msg("partial", adjustedChunks(out.chunks, totalOffset), t.jobId)
                offsetSamples == t.offsetSamples + WORKER_CHUNK_SIZE
            IN IF offsetSamples < t.totalSamples
               THEN /\ workerTasks' = (workerTasks \ {t})
                                      \cup {[t EXCEPT !.offsetSamples = offsetSamples]}
                    /\ fromWorker' = Append(fromWorker, partial)
               ELSE /\ workerTasks' = workerTasks \ {t}
                    /\ fromWorker' = fromWorker \o <<partial, Msg("complete", <<>>, t.jobId)>>
    /\ UNCHANGED <<segVars, scaleVars, activeJobId, accumulatedSegments, onSubtitleProgressCallback,
                   worker, jobs, toWorker>>

\* a worker.onmessage without the test of jobId against activeJobId
OnWorkerMessageUnchecked(m, active, accumulated, callback) ==
    IF m.type = "partial"
    THEN [acc |-> OnPartial(accumulated, m.data), call |-> callback # 0,
          old |-> PushedAndSorted(accumulated, m.data), fresh |-> TRUE]
    ELSE IF m.type = "complete"
    THEN [acc |-> accumulated, call |-> callback # 0, old |-> accumulated, fresh |-> FALSE]
    ELSE [acc |-> accumulated, call |-> FALSE, old |-> accumulated, fresh |-> FALSE]

\* worker.onmessage of initWorker: [acc, call, old, fresh] with acc the new
\* accumulatedSegments, call whether onSubtitleProgressCallback is invoked,
\* old the contents the handler leaves in the array accumulatedSegments
\* referred to before, and fresh whether acc is a new array
OnWorkerMessage(m, active, accumulated, callback) ==
    IF m.jobId # active
    THEN [acc |-> accumulated, call |-> FALSE, old |-> accumulated, fresh |-> FALSE]
    ELSE IF m.type = "partial"
    THEN [acc |-> OnPartial(accumulated, m.data), call |-> callback # 0,
          old |-> PushedAndSorted(accumulated, m.data), fresh |-> TRUE]
    ELSE IF m.type = "complete"
    THEN [acc |-> accumulated, call |-> callback # 0, old |-> accumulated, fresh |-> FALSE]
    ELSE [acc |-> accumulated, call |-> FALSE, old |-> accumulated, fresh |-> FALSE]

\* job J as worker.onmessage leaves it: the array its consumer holds may have
\* been pushed to and sorted, and the consumer may be handed the current array
Handled(J, m, r, accumulated, called, active) ==
    LET J0 == IF J.aliased
              THEN [J EXCEPT !.snapMutated = @ \/ r.old # accumulated,
                             !.aliased = ~r.fresh]
              ELSE J
        J1 == IF m.jobId # J.jobId THEN J0
              ELSE [J0 EXCEPT !.merged = @ \/ r.fresh,
                              !.ignored = @ \/ (/\ m.jobId # active
                                                 /\ m.type \in {"partial", "complete"})]
    IN IF called THEN [Publish(J1, r.acc, active) EXCEPT !.aliased = TRUE] ELSE J1

\* chunkHandler of job J, and the continuation of its loop when the chunk
\* promise settles: [job, post]
ChunkHandler(J, m, active, accumulated) ==
    IF ~(J.listening /\ m.jobId = J.jobId) \/ m.type = "partial"
    THEN [job |-> J, post |-> <<>>]
    ELSE IF m.type = "complete"
    THEN InProcLoop([J EXCEPT !.listening = FALSE, !.doneCount = @ + 1], active, accumulated)
    ELSE [job |-> [J EXCEPT !.listening = FALSE, !.doneCount = @ + 1,
                            !.pc = "rejected", !.cur = NoChunk],
          post |-> <<>>]

RECURSIVE PostsOf(_, _, _, _)
PostsOf(js, m, active, accumulated) ==
    IF js = <<>> THEN <<>>
    ELSE ChunkHandler(Head(js), m, active, accumulated).post
         \o PostsOf(Tail(js), m, active, accumulated)

\* the main thread takes a message of the Worker: worker.onmessage, then the
\* chunkHandler listeners, then the continuations they release
MainReceive ==
    /\ fromWorker # <<>>
    /\ fromWorker' = Tail(fromWorker)
    /\ LET m == Head(fromWorker)
           r == OnWorkerMessage(m, activeJobId, accumulatedSegments, onSubtitleProgressCallback)
           published == [j \in 1..Len(jobs) |->
                            Handled(jobs[j], m, r, accumulatedSegments,
                                    r.call /\ j = onSubtitleProgressCallback, activeJobId)]
       IN /\ accumulatedSegments' = r.acc
          /\ jobs' = [j \in 1..Len(jobs) |->
                         ChunkHandler(published[j], m, activeJobId, r.acc).job]
          /\ toWorker' = toWorker \o PostsOf(published, m, activeJobId, r.acc)
    /\ UNCHANGED <<segVars, scaleVars, activeJobId, onSubtitleProgressCallback, worker, workerTasks,
                   answers>>

\* the service driven directly: the App stays as mounted
Next ==
    \/ \E in \in JobInputs : StartJob(in) /\ UNCHANGED app
    \/ \E j \in 1..Len(jobs) : DecodeDone(j) /\ UNCHANGED app
    \/ \E j \in 1..Len(jobs) : DecodeFail(j) /\ UNCHANGED app
    \/ Cancel /\ UNCHANGED app
    \/ \E j \in 1..Len(jobs), w \in 1..CONCURRENCY_LIMIT, ans \in CloudAnswers :
          CloudReturn(j, w, ans) /\ UNCHANGED app
    \/ \E j \in 1..Len(jobs), w \in 1..CONCURRENCY_LIMIT :
          CloudBackoffDone(j, w) /\ UNCHANGED app
    \/ \E j \in 1..Len(jobs), ans \in LocalAnswers : LocalReturn(j, ans) /\ UNCHANGED app
    \/ WorkerReceive /\ UNCHANGED app
    \/ \E t \in workerTasks, out \in ModelOutputs : WorkerInfer(t, out) /\ UNCHANGED app
    \/ MainReceive /\ UNCHANGED app

Spec == InitPipe /\ [][Next]_vars

\* ---------------------------------------------------------------------------
\* Cloud path, run to the end: the backend answers are not counted
\* ---------------------------------------------------------------------------
\* a short waveform that getVADChunks cuts in two (0.225 s and 0.05 s)
VadPipeAudio == [q |-> VadCell, e |-> <<0, 1, 0, 1, 0, 1, 0, 1, 0, 0, 1>>, off |-> 0]

\* the cloud runs of the pipeline, and a cloud run with VAD segmentation
CloudSettings ==
    {s \in PipeSettings : s.backend.path = "cloud"}
    \cup
    [method : {"vad"}, audioData : {VadPipeAudio},
     cfg : {[batchMs |-> 100, minSilenceMs |-> 50, thr |-> <<1, 4>>]},
     limitMs : {NoLimit},
     backend : {[path |-> "cloud", hasKey |-> TRUE, cached |-> TRUE]}]

InitCloud ==
    /\ segIn \in CloudSettings
    /\ gen = [GenInit(segIn.method, segIn.audioData) EXCEPT !.done = TRUE]
    /\ yielded = <<>>
    /\ PipeIdle
    /\ ScaleIdle
    /\ AppIdle

\* the generateContent call of worker w of job j returns or throws
CloudCall(j, w, ans) ==
    /\ j \in 1..Len(jobs)
    /\ CloudAnswered(j, w, ans)
    /\ UNCHANGED <<answers, app>>

\* the backoff timer of worker w of job j fires
CloudTimer(j, w) ==
    /\ j \in 1..Len(jobs)
    /\ CloudBackoffDone(j, w)
    /\ UNCHANGED app

\* one call of generateSubtitles; what supersedes it is a cancellation
NextCloud ==
    \/ \E in \in JobInputs : jobs = <<>> /\ StartJob(in) /\ UNCHANGED app
    \/ Cancel /\ UNCHANGED app
    \/ \E j \in 1..MaxEpoch, w \in 1..CONCURRENCY_LIMIT, ans \in CloudAnswers :
          CloudCall(j, w, ans)
    \/ \E j \in 1..MaxEpoch, w \in 1..CONCURRENCY_LIMIT : CloudTimer(j, w)

\* a backoff timer that is set fires (setTimeout)
SpecCloud ==
    InitCloud /\ [][NextCloud]_vars
    /\ \A j \in 1..MaxEpoch, w \in 1..CONCURRENCY_LIMIT : WF_vars(CloudTimer(j, w))

\* ---------------------------------------------------------------------------
\* In-process path on its own, with a VAD run whose chunk is longer than the
\* 30-second window of the Worker
\* ---------------------------------------------------------------------------
\* 35 seconds without a silence
LoudAudio == [q |-> PipeCell, e |-> <<1, 1, 1, 1, 1, 1, 1>>, off |-> 0]

InProcSettings ==
    {s \in PipeSettings : s.backend.path = "worker"}
    \cup
    [method : {"vad"}, audioData : {LoudAudio},
     cfg : {[batchMs |-> 60000, minSilenceMs |-> 400, thr |-> <<1, 4>>]},
     limitMs : {NoLimit},
     backend : {[path |-> "worker", hasKey |-> TRUE, cached |-> TRUE]}]

InitInProc ==
    /\ segIn \in InProcSettings
    /\ gen = [GenInit(segIn.method, segIn.audioData) EXCEPT !.done = TRUE]
    /\ yielded = <<>>
    /\ PipeIdle
    /\ ScaleIdle
    /\ AppIdle

NextInProc ==
    \/ \E in \in JobInputs : StartJob(in) /\ UNCHANGED app
    \/ \E j \in 1..Len(jobs) : DecodeDone(j) /\ UNCHANGED app
    \/ \E j \in 1..Len(jobs) : DecodeFail(j) /\ UNCHANGED app
    \/ Cancel /\ UNCHANGED app
    \/ WorkerReceive /\ UNCHANGED app
    \/ \E t \in workerTasks, out \in ModelOutputs : WorkerInfer(t, out) /\ UNCHANGED app
    \/ MainReceive /\ UNCHANGED app

SpecInProc == InitInProc /\ [][NextInProc]_vars

\* ---------------------------------------------------------------------------
\* The App component (handleFileChange, handleGenerate) over the service
\* ---------------------------------------------------------------------------
\* video files the user can choose from
MaxFiles == 2
\* presses of Generate in a run
MaxRequests == 2

\* the settings of a run of the App: 25 seconds of audio, any backend
AppSettings ==
    {s \in PipeSettings : AudioLen(s.audioData) = 25 * SAMPLE_RATE /\ s.backend.cached}

InitApp ==
    /\ segIn \in AppSettings
    /\ gen = [GenInit(segIn.method, segIn.audioData) EXCEPT !.done = TRUE]
    /\ yielded = <<>>
    /\ PipeIdle
    /\ ScaleIdle
    /\ AppIdle

isOffline == segIn.backend.path # "cloud"

\* localASRConfig.enabled
localASREnabled == segIn.backend.path = "local"

\* one call of handleGenerate past the Stop branch: its currentId, the
\* videoFile of its closure, where it stands, and the call of generateSubtitles
\* it made (its place in jobs, 0 before the call); whether Stop was pressed
\* while it ran, and the chunks its job had started by then
NewRequest(currentId, file, pc, job) ==
    [currentId |-> currentId, file |-> file, pc |-> pc, job |-> job,
     stopped |-> FALSE, startedAtStop |-> 0]

\* the onProgress of request r was invoked in the step from js to js2
Called(r, js, js2) ==
    /\ r.job # 0 /\ r.job <= Len(js2)
    /\ js2[r.job].pubCount > (IF r.job <= Len(js) THEN js[r.job].pubCount ELSE 0)

\* the onProgress closures of handleGenerate, for the callbacks made in the
\* step from js to js2: if (processingIdRef.current === currentId) setSubtitles(...)
OnProgress(a, js, js2) ==
    LET setters == {k \in 1..Len(a.reqs) :
                       Called(a.reqs[k], js, js2) /\ a.processingId = a.reqs[k].currentId}
    IN IF setters = {} THEN a
       ELSE LET k == CHOOSE k \in setters : TRUE
            IN [a EXCEPT !.subtitles = [req |-> k, file |-> a.reqs[k].file]]

\* handleFileChange: another file is chosen
handleFileChange(f) ==
    /\ f # app.videoFile
    /\ app' = [app EXCEPT !.subtitles = [req |-> 0, file |-> 0],
                          !.cache = 0, !.videoFile = f]
    /\ UNCHANGED <<segVars, scaleVars, pipeVars>>

\* the requests after a press of Stop: the one that is running is marked
Stopped(reqs, id, js) ==
    [k \in 1..Len(reqs) |->
        IF reqs[k].currentId = id /\ reqs[k].pc # "done" /\ ~reqs[k].stopped
        THEN [reqs[k] EXCEPT !.stopped = TRUE,
                             !.startedAtStop = IF reqs[k].job = 0 THEN 0
                                               ELSE Len(js[reqs[k].job].started)]
        ELSE reqs[k]]

\* handleGenerate while isProcessing: the Stop branch
Stop ==
    /\ app.isProcessing
    /\ Cancel
    /\ app' = [app EXCEPT !.isProcessing = FALSE, !.processingId = @ + 1,
                          !.reqs = Stopped(@, app.processingId, jobs)]

\* handleGenerate up to its first await: with a cached waveform that is the
\* await of generateSubtitles, without one the await of getAudioData
Generate ==
    /\ ~app.isProcessing
    /\ app.videoFile # 0
    /\ Len(app.reqs) < MaxRequests
    /\ IF app.cache # 0
       THEN /\ StartJob(segIn.backend)
            /\ app' = OnProgress(
                        [app EXCEPT !.processingId = @ + 1, !.isProcessing = TRUE,
                                    !.subtitles = [req |-> 0, file |-> 0],
                                    !.reqs = Append(@, NewRequest(app.processingId + 1,
                                                                  app.videoFile, "running",
                                                                  Len(jobs) + 1))],
                        jobs, jobs')
       ELSE /\ app' = [app EXCEPT !.processingId = @ + 1, !.isProcessing = TRUE,
                                  !.subtitles = [req |-> 0, file |-> 0],
                                  !.reqs = Append(@, NewRequest(app.processingId + 1,
                                                                app.videoFile, "decoding", 0))]
            /\ UNCHANGED <<segVars, scaleVars, pipeVars>>

\* await getAudioData(videoFile, true) returns in request k: the waveform is
\* cached and generateSubtitles is called
AppDecoded(k) ==
    /\ k \in 1..Len(app.reqs)
    /\ app.reqs[k].pc = "decoding"
    /\ StartJob(segIn.backend)
    /\ app' = OnProgress([app EXCEPT !.cache = app.reqs[k].file,
                                     !.reqs[k].pc = "running",
                                     !.reqs[k].job = Len(jobs) + 1],
                         jobs, jobs')

\* await getAudioData(videoFile, true) throws in request k: the catch block
AppDecodeFailed(k) ==
    /\ k \in 1..Len(app.reqs)
    /\ app.reqs[k].pc = "decoding"
    /\ app' = [app EXCEPT !.reqs[k].pc = "done",
                          !.isProcessing = IF app.processingId = app.reqs[k].currentId
                                           THEN FALSE ELSE @]
    /\ UNCHANGED <<segVars, scaleVars, pipeVars>>

\* await generateSubtitles(...) settles in request k: the lines after it, or
\* the catch block
AppSettled(k) ==
    /\ k \in 1..Len(app.reqs)
    /\ app.reqs[k].pc = "running"
    /\ jobs[app.reqs[k].job].pc \in {"resolved", "rejected"}
    /\ app' = [app EXCEPT
                 !.reqs[k].pc = "done",
                 !.isProcessing =
                     IF /\ app.processingId = app.reqs[k].currentId
                        /\ \/ jobs[app.reqs[k].job].pc = "rejected"
                           \/ ~isOffline \/ localASREnabled
                     THEN FALSE ELSE @]
    /\ UNCHANGED <<segVars, scaleVars, pipeVars>>

\* a step of the service under the App: the callbacks it makes reach the
\* onProgress closures
Served(A) == A /\ app' = OnProgress(app, jobs, jobs')

NextApp ==
    \/ \E f \in 1..MaxFiles : handleFileChange(f)
    \/ Generate
    \/ Stop
    \/ \E k \in 1..MaxRequests : AppDecoded(k)
    \/ \E k \in 1..MaxRequests : AppDecodeFailed(k)
    \/ \E k \in 1..MaxRequests : AppSettled(k)
    \/ \E j \in 1..Len(jobs), w \in 1..CONCURRENCY_LIMIT, ans \in CloudAnswers :
          Served(CloudReturn(j, w, ans))
    \/ \E j \in 1..Len(jobs), w \in 1..CONCURRENCY_LIMIT : Served(CloudBackoffDone(j, w))
    \/ \E j \in 1..Len(jobs), ans \in LocalAnswers : Served(LocalReturn(j, ans))
    \/ Served(WorkerReceive)
    \/ \E t \in workerTasks, out \in ModelOutputs : Served(WorkerInfer(t, out))
    \/ Served(MainReceive)

\* the continuation of an await whose promise has settled runs
SpecApp ==
    InitApp /\ [][NextApp]_vars
    /\ \A k \in 1..MaxRequests : WF_vars(AppSettled(k))

\* ---------------------------------------------------------------------------
\* Pipeline claims
\* ---------------------------------------------------------------------------
JobIds == 1..Len(jobs)

NoOverlap(segs) == \A k \in 1..(Len(segs) - 1) : segs[k].end <= segs[k + 1].start

OrderedByStart(segs) == \A k \in 1..(Len(segs) - 1) : segs[k].start <= segs[k + 1].start

\* C1: every snapshot handed to the consumer, on every backend path, satisfies
\* a.end <= b.start for all adjacent segments (a, b).
C1_SnapshotsDoNotOverlap ==
    \A j \in JobIds : jobs[j].pubCount > 0 => NoOverlap(jobs[j].lastSnap)

\* C2: every snapshot handed to the consumer callback, on every backend path,
\* is ordered by start time.
C2_SnapshotsOrdered ==
    \A j \in JobIds : jobs[j].pubCount > 0 => OrderedByStart(jobs[j].lastSnap)

\* C3: once the active epoch no longer equals a job's id, the progress
\* callback given to that job is never invoked again.
C3_NoCallbackAfterSupersede ==
    \A j \in JobIds : ~jobs[j].lateCall

\* C6: a chunk whose cloud call keeps failing is retried 3 times after the
\* initial call, with waits of 1 s, 2 s and 4 s, and only then gets an empty
\* result.
C6_ThreeRetriesWithBackoff ==
    \A j \in JobIds : \A f \in jobs[j].failLog :
        f.calls = 1 + 3 /\ f.waits = <<1000, 2000, 4000>>

\* C7: on every backend path a chunk whose transcription fails contributes no
\* segment, the job goes on and it resolves instead of rejecting: only a
\* failure of the set-up, before any chunk has ended, rejects a job.
C7_ChunkFailureNeverRejects ==
    \A j \in JobIds : jobs[j].pc = "rejected" => jobs[j].doneCount = 0

StripId(seg) == [start |-> seg.start, end |-> seg.end, text |-> seg.text]

Occurrences(segs, x) == Cardinality({k \in 1..Len(segs) : StripId(segs[k]) = x})

\* the same segments, each the same number of times, ids left aside
SameSegments(a, b) ==
    /\ Len(a) = Len(b)
    /\ \A k \in 1..Len(a) : Occurrences(a, StripId(a[k])) = Occurrences(b, StripId(a[k]))

RECURSIVE ConcatOver(_, _)
ConcatOver(f, S) ==
    IF S = {} THEN <<>>
    ELSE LET i == CHOOSE x \in S : \A y \in S : x <= y
         IN f[i] \o ConcatOver(f, S \ {i})

\* the segments of all chunks of cloud job J whose transcription has completed
CompletedSegments(J) == ConcatOver(J.resultsMap, DOMAIN J.resultsMap)

\* C8: on the cloud path every snapshot handed to the consumer contains
\* exactly the segments of all chunks of the job completed so far, whatever
\* the order in which they completed.
C8_SnapshotIsFullMerge ==
    \A j \in JobIds :
        jobs[j].path = "cloud" =>
            SameSegments(jobs[j].lastSnap, CompletedSegments(jobs[j]))

\* chunk 1 completed before chunk 0, and a snapshot with its segments was handed out
C8_Witness ==
    \E j \in JobIds :
        /\ jobs[j].path = "cloud"
        /\ DOMAIN jobs[j].resultsMap = {1}
        /\ jobs[j].pubCount >= 2
        /\ jobs[j].lastSnap # <<>>

MergeIncrements ==
    {ScaleAndOffset(raw, 1, 0) :
        raw \in RawAnswers \cup {<<RawSeg(5, 15, Txt_xy), RawSeg(0, 16, Txt_abcd)>>}}

\* folding inc twice into the in-process Transcript is folding it once
InProcessFoldTwice(inc) ==
    OnPartial(OnPartial(accumulatedSegments, inc), inc) = OnPartial(accumulatedSegments, inc)

\* folding inc twice into a local-server Transcript is folding it once
LocalFoldTwice(allSegments, inc) ==
    LocalMerge(LocalMerge(allSegments, inc), inc) = LocalMerge(allSegments, inc)

\* C10: the transcript merge is idempotent: folding an empty increment leaves
\* the Transcript unchanged, and folding the same increment twice in a row
\* yields the same Transcript as folding it once (in-process merge and
\* local-server merge).
C10_MergeIdempotent ==
    /\ OnPartial(accumulatedSegments, <<>>) = accumulatedSegments
    /\ \A inc \in MergeIncrements : InProcessFoldTwice(inc)
    /\ \A j \in JobIds :
          jobs[j].path = "local" =>
             /\ LocalMerge(jobs[j].allSegments, <<>>) = jobs[j].allSegments
             /\ \A inc \in MergeIncrements : LocalFoldTwice(jobs[j].allSegments, inc)

\* C16: across any sequence of generateSubtitles and cancelSubtitleGeneration
\* calls activeJobId never decreases, every job gets an id strictly greater
\* than the ids of all earlier jobs, at most one job has its id equal to
\* activeJobId, and a job's id stops matching activeJobId the instant a later
\* job starts or cancel is called, and never matches again.
C16_EpochMonotonic ==
    [][/\ activeJobId' >= activeJobId
       /\ Len(jobs') >= Len(jobs)
       /\ \A j \in JobIds : jobs'[j].jobId = jobs[j].jobId
       /\ \A j \in 1..Len(jobs') : \A k \in 1..(j - 1) : jobs'[k].jobId < jobs'[j].jobId
       /\ Cardinality({j \in 1..Len(jobs') : jobs'[j].jobId = activeJobId'}) <= 1
       /\ (Len(jobs') > Len(jobs) \/ activeJobId' # activeJobId) =>
             \A j \in JobIds : jobs'[j].jobId # activeJobId'
       /\ \A j \in JobIds : jobs[j].jobId # activeJobId => jobs'[j].jobId # activeJobId'
      ]_vars

\* a job still running after a later job has taken the epoch over
C16_Witness ==
    /\ Len(jobs) = 2
    /\ jobs[1].jobId = 1 /\ jobs[2].jobId = 2
    /\ activeJobId = 2
    /\ jobs[1].pc = "running"

\* the workers of job J that hold a chunk
Busy(J) == {w \in 1..CONCURRENCY_LIMIT : J.slots[w].pc \in {"calling", "backoff"}}

\* C17: on the cloud path, with two workers pulling from one shared chunk
\* generator, every chunk yielded by the segmenter is handed to exactly one
\* worker (no chunk is held by two workers or started twice, every chunk got
\* from the generator is started, and a job that ends while active has started
\* all the chunks of the waveform), and chunks start transcription in
\* increasing index order, whatever the order in which they complete.
C17_EachChunkToOneWorker ==
    \A j \in JobIds :
        jobs[j].path = "cloud" =>
            LET J == jobs[j] IN
            /\ \A v, w \in Busy(J) : v # w => J.slots[v].chunk.index # J.slots[w].chunk.index
            /\ \A k \in 1..Len(J.started) : J.started[k] = k - 1
            /\ J.pulls = Len(J.started)
            /\ \A w \in Busy(J) : \E k \in 1..Len(J.started) : J.started[k] = J.slots[w].chunk.index
            /\ (J.pc = "resolved" /\ J.jobId = activeJobId) =>
                  /\ J.gen.done /\ J.pending = <<>>
                  /\ Len(J.started) = J.gen.globalIndex
                  /\ AudioLen(J.audioData) > 0 =>
                        \E w \in 1..CONCURRENCY_LIMIT :
                           /\ J.slots[w].chunk.index = Len(J.started) - 1
                           /\ J.slots[w].chunk.end = AudioLen(J.audioData)

\* chunk 1 has completed before chunk 0, and the free worker has gone on to chunk 2
C17_Witness ==
    \E j \in JobIds :
        /\ jobs[j].path = "cloud" /\ jobs[j].jobId = activeJobId
        /\ jobs[j].started = <<0, 1, 2>>
        /\ 1 \in DOMAIN jobs[j].resultsMap
        /\ 0 \notin DOMAIN jobs[j].resultsMap

\* C18: once the active epoch differs from a job's id, that job pulls no
\* further chunk from the segmenter and starts the transcription of no further
\* chunk, on the cloud, local-server and in-process paths.
C18_SupersededJobStops ==
    [][\A j \in JobIds :
          jobs[j].jobId # activeJobId =>
              /\ jobs'[j].pulls = jobs[j].pulls
              /\ jobs'[j].started = jobs[j].started
      ]_vars

\* C18, amended: once the active epoch differs from a job's id, that job
\* starts the transcription of no further chunk on any path and pulls no
\* further chunk on the cloud path; on the local-server and in-process paths
\* it pulls at most one further chunk, on which its loop ends.
C18_SupersededJobStartsNothing ==
    [][\A j \in JobIds :
          jobs[j].jobId # activeJobId =>
              /\ jobs'[j].started = jobs[j].started
              /\ jobs[j].path = "cloud" => jobs'[j].pulls = jobs[j].pulls
              /\ jobs'[j].pulls # jobs[j].pulls =>
                    /\ jobs'[j].pulls = jobs[j].pulls + 1
                    /\ jobs[j].pc # "resolved"
                    /\ jobs'[j].pc = "resolved"
      ]_vars

\* a superseded local-server job has ended on a chunk it pulled and did not start
C18_Witness ==
    \E j \in JobIds :
        /\ jobs[j].path = "local" /\ jobs[j].jobId # activeJobId
        /\ jobs[j].pc = "resolved"
        /\ Len(jobs[j].started) = 1
        /\ jobs[j].pulls = 2

Forwards(segs) == \A k \in 1..Len(segs) : segs[k].end > segs[k].start

\* C19: every segment in every snapshot handed to the consumer, and in the
\* final resolved Transcript, has end > start, on every backend path.
C19_SegmentsRunForwards ==
    \A j \in JobIds :
        /\ Forwards(jobs[j].lastSnap)
        /\ jobs[j].pc = "resolved" => Forwards(jobs[j].result)

\* C20: if the waveform cannot be decoded or is empty (zero samples), the job
\* ends with a terminal error delivered to the caller (its promise rejects)
\* and no chunk is ever dispatched to a backend.
C20_DecodeOrEmptyIsFatal ==
    /\ [](\A j \in JobIds :
            (AudioLen(jobs[j].audioData) = 0 /\ jobs[j].pc # "decoding") =>
                (jobs[j].pc = "rejected" /\ jobs[j].started = <<>>))
    /\ [][\A j \in JobIds :
            /\ (jobs[j].pc = "decoding" /\ jobs'[j].pc = "rejected") =>
                  (jobs'[j].started = <<>> /\ jobs'[j].pulls = 0)
            /\ jobs[j].pc = "rejected" => jobs'[j] = jobs[j]
         ]_vars

\* the segments of the increments, one at a time
MergeSegments == UNION {{inc[k] : k \in 1..Len(inc)} : inc \in MergeIncrements}

\* seg is folded into a non-empty Transcript before, giving after: when it
\* starts before last.end, a small overlap moves its start to last.end (unless
\* it is dropped), and otherwise a segment that ends by last.end is dropped
OverlapRule(before, after, seg, threshold) ==
    LET last == Last(before) IN
    (before # <<>> /\ seg.start < last.end) =>
        IF last.end - seg.start < threshold
        THEN after \in {before, Append(before, [seg EXCEPT !.start = last.end])}
        ELSE seg.end <= last.end => after = before

\* C25: in the local-server merge (threshold 1.0 s) and the in-process merge
\* (threshold 0.5 s), a segment that starts before last.end has its start set
\* to last.end when last.end - seg.start is below the threshold; otherwise,
\* when seg.end <= last.end, it is dropped and does not enter the Transcript.
C25_OverlapClampOrDrop ==
    /\ \A seg \in MergeSegments :
          OverlapRule(accumulatedSegments, PartialMerge(accumulatedSegments, <<seg>>),
                      seg, INPROC_OVERLAP)
    /\ \A j \in JobIds :
          jobs[j].path = "local" =>
             \A seg \in MergeSegments :
                OverlapRule(jobs[j].allSegments, LocalMerge(jobs[j].allSegments, <<seg>>),
                            seg, LOCAL_OVERLAP)

\* C26: in every snapshot handed to the consumer, on every path, no two
\* adjacent segments carry exactly the same text.
C26_NoAdjacentRepeat ==
    \A j \in JobIds :
        \A k \in 1..(Len(jobs[j].lastSnap) - 1) :
            jobs[j].lastSnap[k].text # jobs[j].lastSnap[k + 1].text

\* C24: an array handed to the consumer callback is never modified by the
\* pipeline afterwards: later pushes, sorts and re-indexing work on another
\* array, so an earlier snapshot keeps the contents it was published with.
C24_SnapshotsNotModified ==
    \A j \in JobIds : ~jobs[j].snapMutated

\* the chunks of job J whose transcription has started and whose result is
\* not yet in resultsMap
InFlight(J) == {J.started[k] : k \in 1..Len(J.started)} \ DOMAIN J.resultsMap

Exhausted(J) == J.gen.done /\ J.pending = <<>>

\* worker w of the job is waiting for its c-th call for chunk i to return
InCall(w, i, c) ==
    /\ jobs # <<>> /\ jobs[1].pc = "running"
    /\ jobs[1].slots[w].pc = "calling"
    /\ jobs[1].slots[w].chunk.index = i
    /\ jobs[1].slots[w].calls = c

\* every backend call of worker w returns or fails in the end
CallsReturn(w) ==
    \A i \in 0..2, c \in 1..MAX_RETRIES : []<>~InCall(w, i, c)

\* the job has ended
Settled == jobs # <<>> /\ jobs[1].pc \in {"resolved", "rejected"}

\* C27: if every backend call returns or fails in the end, a cloud-path job
\* that is not superseded resolves in the end, with the final Transcript and
\* after every chunk of the segmenter has been processed (a superseded job
\* ends as well); the retry loop and the chunk generators do not run for ever.
C27_CloudJobResolves ==
    /\ (\A w \in 1..CONCURRENCY_LIMIT : CallsReturn(w)) => ((jobs # <<>>) ~> Settled)
    /\ [](\A j \in JobIds :
            /\ (jobs[j].pc = "resolved" /\ jobs[j].jobId = activeJobId) =>
                  /\ Exhausted(jobs[j])
                  /\ DOMAIN jobs[j].resultsMap = 0..(jobs[j].gen.globalIndex - 1)
                  /\ jobs[j].result
                        = Reindex(CollectResults(jobs[j].resultsMap, 0,
                                                 jobs[j].gen.globalIndex - 1))
            /\ jobs[j].pc = "rejected" => ~segIn.backend.hasKey
            /\ \A w \in 1..CONCURRENCY_LIMIT :
                  /\ jobs[j].slots[w].attempt < MAX_RETRIES
                  /\ jobs[j].slots[w].calls <= MAX_RETRIES)

\* a job of three chunks has resolved while active, after a call was retried
C27_Witness ==
    \E j \in JobIds :
        /\ jobs[j].pc = "resolved" /\ jobs[j].jobId = activeJobId
        /\ DOMAIN jobs[j].resultsMap = {0, 1, 2}
        /\ jobs[j].result # <<>>
        /\ jobs[j].failLog # {}

\* the worker other than w has left its loop with every chunk but chunk i
\* stored, and the last snapshot handed out holds every stored result
OthersDone(w, i) ==
    /\ jobs # <<>>
    /\ Exhausted(jobs[1])
    /\ jobs[1].slots[3 - w].pc = "done"
    /\ DOMAIN jobs[1].resultsMap = (0..(jobs[1].gen.globalIndex - 1)) \ {i}
    /\ SameSegments(jobs[1].lastSnap, CompletedSegments(jobs[1]))

\* C21: on the cloud path, if a call in flight in one worker never returns
\* while the calls of the other worker always return (and the job is not
\* superseded), the other worker takes and completes every remaining chunk in
\* the end, and a snapshot with each of their results is published.
C21_HangStallsOneWorker ==
    \A w \in 1..CONCURRENCY_LIMIT :
        \A i \in 0..2, c \in 1..MAX_RETRIES :
            (/\ <>[](InCall(w, i, c) /\ jobs[1].jobId = activeJobId)
             /\ CallsReturn(3 - w))
            => <>OthersDone(w, i)

\* the first call of worker 1, for chunk 0, is still in flight, and worker 2
\* has completed chunks 1 and 2 and has left its loop
C21_Witness ==
    /\ InCall(1, 0, 1)
    /\ jobs[1].jobId = activeJobId
    /\ OthersDone(1, 0)
    /\ DOMAIN jobs[1].resultsMap = {1, 2}
    /\ jobs[1].lastSnap # <<>>

\* C31: once a cloud-path job has been superseded or cancelled it initiates no
\* further backend call: no worker of it enters a call, and none goes from a
\* failed call to the next attempt for the same chunk.
C31_NoCallAfterSupersede ==
    [][\A j \in JobIds, w \in 1..CONCURRENCY_LIMIT :
          (/\ jobs[j].path = "cloud"
           /\ jobs[j].jobId # activeJobId
           /\ jobs'[j].slots[w].pc = "calling")
          => jobs'[j].slots[w] = jobs[j].slots[w]
      ]_vars

\* a step in which worker.onmessage is given a message of a job that is not
\* the active one leaves accumulatedSegments alone and calls no onProgress of
\* an in-process job
StaleMessageDropped ==
    [][/\ accumulatedSegments' # accumulatedSegments =>
             \/ activeJobId' # activeJobId /\ accumulatedSegments' = <<>>
             \/ fromWorker # <<>> /\ Head(fromWorker).jobId = activeJobId
       /\ \A j \in JobIds :
             (jobs[j].path = "worker" /\ jobs'[j].pubCount # jobs[j].pubCount) =>
                 fromWorker # <<>> /\ Head(fromWorker).jobId = activeJobId
      ]_vars

\* C32: on the in-process path a worker message whose jobId differs from
\* activeJobId never changes accumulatedSegments and never invokes the
\* subtitle progress callback; hence accumulatedSegments only ever holds
\* segments of the currently active job.
C32_StaleMessagesIgnored ==
    /\ StaleMessageDropped
    /\ [](accumulatedSegments # <<>> =>
             \A j \in JobIds : jobs[j].merged => jobs[j].jobId = activeJobId)

\* C32, amended: ... hence accumulatedSegments only ever holds segments of
\* the job started by the latest call of generateSubtitles (which a
\* cancellation may have made inactive since).
C32_AccumulatorOfLatestJob ==
    /\ StaleMessageDropped
    /\ [](accumulatedSegments # <<>> =>
             /\ jobs # <<>> /\ jobs[Len(jobs)].merged
             /\ \A j \in JobIds : jobs[j].merged => j = Len(jobs))

\* messages of a superseded job were dropped, and accumulatedSegments holds
\* segments of the job that superseded it
C32_Witness ==
    /\ accumulatedSegments # <<>>
    /\ \E j \in JobIds : j # Len(jobs) /\ jobs[j].ignored
    /\ jobs[Len(jobs)].merged
    /\ jobs[Len(jobs)].jobId = activeJobId

\* C33: the Transcript a job's promise resolves with holds only segments
\* transcribed from that job's own chunks, also when the job was superseded by
\* a newer job while one of its chunks was in flight on the in-process path.
C33_ResolvesWithOwnSegments ==
    \A j \in JobIds : jobs[j].pc = "resolved" => ~jobs[j].foreign

\* C34: when a job that published at least one snapshot resolves, the
\* Transcript it resolves with is identical (same segments, same order, same
\* ids) to the last snapshot it handed to the progress callback, on the
\* cloud, local-server and in-process paths.
C34_ResultIsLastSnapshot ==
    \A j \in JobIds :
        (jobs[j].pc = "resolved" /\ jobs[j].pubCount > 0) =>
            jobs[j].result = jobs[j].lastSnap

\* C35: when the local server answers a chunk with plain text only, the single
\* segment built for it spans the whole chunk: it starts at the chunk's
\* absolute start time and ends at the chunk's absolute end time, for every
\* chunk duration the segmenter can produce.
C35_TextFallbackSpansChunk ==
    \A j \in JobIds :
        jobs[j].fallback.textOnly =>
            LET f == jobs[j].fallback IN
            /\ Len(f.built) = 1
            /\ f.built[1].start = TimeOfSample(f.chunk.start)
            /\ f.built[1].end = TimeOfSample(f.chunk.end)

\* the job a task of the Worker belongs to is in VAD mode
VadTask(t) == \E j \in JobIds : jobs[j].jobId = t.jobId /\ jobs[j].method = "vad"

\* C36: in VAD mode on the in-process path every boundary between two audio
\* windows submitted to the speech model is a boundary chosen by the segmenter:
\* the window the model is working on starts where a segmenter chunk starts
\* and ends where that chunk ends.
C36_WindowsAreSegmenterChunks ==
    \A t \in workerTasks :
        VadTask(t) =>
            /\ t.offsetSamples = 0
            /\ Min(t.offsetSamples + WORKER_CHUNK_SIZE, t.totalSamples) = t.totalSamples

\* ---------------------------------------------------------------------------
\* App claims
\* ---------------------------------------------------------------------------
\* C37: after the user presses Stop on a running generation request, no
\* transcription backend call is started on behalf of that request, also when
\* Stop is pressed while the audio is still being decoded and generateSubtitles
\* has not been called yet: the job of a stopped request starts the
\* transcription of no chunk it had not started when Stop was pressed.
C37_NoBackendCallAfterStop ==
    \A k \in 1..Len(app.reqs) :
        LET r == app.reqs[k] IN
        r.stopped =>
            \/ r.job = 0
            \/ Len(jobs[r.job].started) = r.startedAtStop

\* request k has finished, by resolving or by rejecting, while it is the
\* current one
FinishedCurrent(k) ==
    /\ k <= Len(app.reqs)
    /\ app.reqs[k].pc = "running"
    /\ jobs[app.reqs[k].job].pc \in {"resolved", "rejected"}
    /\ app.processingId = app.reqs[k].currentId

\* C38: whenever a generation request that is still the current one finishes,
\* by resolving or by rejecting, isProcessing becomes false in the end, in
\* online mode, local-server mode and in-browser offline mode.
C38_ProcessingEnds ==
    \A k \in 1..MaxRequests : FinishedCurrent(k) ~> ~app.isProcessing

\* C39: the subtitle list is only ever set from the callback of the request
\* that is current for the loaded file: what it shows was set by a request
\* made for the file now loaded, and a callback sets it only while its request
\* is the current one.
C39_SubtitlesOfCurrentRequest ==
    /\ [](app.subtitles.req # 0 => app.subtitles.file = app.videoFile)
    /\ [][(app'.subtitles # app.subtitles /\ app'.subtitles.req # 0) =>
             app'.reqs[app'.subtitles.req].currentId = app'.processingId]_vars

====
